---- MODULE Spec2Model ----
(***************************************************************************)
(* Model of the ClaudeKit workflow orchestration engine:                   *)
(*   WorkflowRunner (execute, executeSequential, executeParallel,          *)
(*   executeFanOut, runAgentWithRetry), StateManager (agent / workflow     *)
(*   states, abort controllers, change events, token accounting and daily  *)
(*   budget) and the two stop commands.                                    *)
(*                                                                         *)
(* JavaScript runs every continuation of a resolved promise before the     *)
(* next external event.  The variable microtask holds the continuation     *)
(* that is pending; external events (a worker process closing, a command)  *)
(* are taken only when it is <<"none">>.                                   *)
(***************************************************************************)
EXTENDS Integers, Sequences, FiniteSets, TLC

\* ---------------------------------------------------------------- bounds
MaxSteps == 2
MaxRetriesBound == 1
MaxTicks == 2
MaxWrites == 3
MaxTurns == 2
MaxChunks == 2

\* ------------------------------------------------------- roles and agents
\* AGENTS table (a sample of it) and one role that has no profile.
AGENTS == {"planner", "scout", "aggregator"}
Roles == AGENTS \cup {"ghost"}

\* variant: the profile lookup never fails
hasAgent_AnyRole(agentId) == TRUE

hasAgent(agentId) == agentId \in AGENTS

AgentName(agentId) ==
  CASE agentId = "planner" -> "Planner"
    [] agentId = "scout" -> "Scout"
    [] agentId = "aggregator" -> "Aggregator"
    [] OTHER -> agentId

\* ------------------------------------------------------------- sequences
RECURSIVE Flatten(_)
Flatten(ss) == IF ss = <<>> THEN <<>> ELSE Head(ss) \o Flatten(Tail(ss))

\* s occurs in t as a contiguous block
Contains(t, s) ==
  \E i \in 0..(Len(t) - Len(s)) : \A j \in 1..Len(s) : t[i + j] = s[j]

\* ------------------------------------------------- Map<string, string>
\* A JavaScript Map keeps insertion order; set on a present key keeps the
\* key's position.  Modelled as a sequence of [k, v] entries.
MapHas(m, k) == \E i \in 1..Len(m) : m[i].k = k
MapGet(m, k) == m[CHOOSE i \in 1..Len(m) : m[i].k = k].v
MapSet(m, k, v) ==
  IF MapHas(m, k)
    THEN [i \in 1..Len(m) |-> IF m[i].k = k THEN [k |-> k, v |-> v] ELSE m[i]]
    ELSE Append(m, [k |-> k, v |-> v])
MapKeys(m) == {m[i].k : i \in 1..Len(m)}

\* ------------------------------------------- IEEE-754 double arithmetic
\* JavaScript numbers are binary64.  A positive double is [hi, lo, e]: its 53
\* significand bits as the two numbers hi (the first 26 bits, the leading one
\* always 1) and lo (the last 27), and e the exponent of the leading bit, so
\* its value is (hi * 2^27 + lo) * 2^(e - 52).  Zero is FZero.  Every
\* operation rounds the exact result to nearest, ties to even.  Subnormals,
\* infinities and negative numbers do not occur for the values used here.
Precision == 53
TwoLo == 2^27
TwoHi == 2^26

FZero == [hi |-> 0, lo |-> 0, e |-> 0]

Zeros(n) == [i \in 1..n |-> 0]

\* binary digits of a natural number, most significant first
RECURSIVE Bits(_)
Bits(n) == IF n = 0 THEN <<>> ELSE Append(Bits(n \div 2), n % 2)

\* the w binary digits of n < 2^w, and the number that digits spell
PadBits(n, w) == [i \in 1..w |-> (n \div 2^(w - i)) % 2]

RECURSIVE BitsValue(_)
BitsValue(bits) ==
  IF bits = <<>> THEN 0
  ELSE 2 * BitsValue(SubSeq(bits, 1, Len(bits) - 1)) + bits[Len(bits)]

Pack(m, e) ==
  [hi |-> BitsValue(SubSeq(m, 1, 26)), lo |-> BitsValue(SubSeq(m, 27, Precision)),
   e |-> e]

\* round the bit string bits, whose first bit is 1 and has exponent e, to 53
\* bits; the digits after the 53rd decide: more than half a unit rounds up,
\* exactly half rounds to the even neighbour
FRound(bits, e) ==
  IF Len(bits) <= Precision
  THEN Pack(bits \o Zeros(Precision - Len(bits)), e)
  ELSE LET keep == SubSeq(bits, 1, Precision)
           half == bits[Precision + 1] = 1
           tail == \E i \in (Precision + 2)..Len(bits) : bits[i] = 1
           up == half /\ (tail \/ keep[Precision] = 1)
       IN IF ~up THEN Pack(keep, e)
          ELSE IF \A i \in 1..Precision : keep[i] = 1
          THEN Pack(<<1>> \o Zeros(Precision - 1), e + 1)
          ELSE LET j == CHOOSE j \in 1..Precision :
                          keep[j] = 0 /\ \A i \in (j + 1)..Precision : keep[i] = 1
               IN Pack([i \in 1..Precision |->
                          IF i < j THEN keep[i] ELSE IF i = j THEN 1 ELSE 0], e)

\* the first k binary digits of r / d after the point, for 0 <= r < d, and
\* one more digit that is 1 if a remainder is left
RECURSIVE FracBits(_, _, _)
FracBits(r, d, k) ==
  IF k = 0 THEN <<IF r # 0 THEN 1 ELSE 0>>
  ELSE <<(2 * r) \div d>> \o FracBits((2 * r) % d, d, k - 1)

\* number of zero digits of r / d right after the point, for 0 < r < d
LeadZeros(r, d) == CHOOSE z \in 0..30 : r * 2^z < d /\ r * 2^(z + 1) >= d

\* n / d for naturals n and d > 0, correctly rounded (JavaScript n / d; also
\* the value of a decimal literal n/d such as 0.8)
divide(n, d) ==
  IF n = 0 THEN FZero
  ELSE LET q == Bits(n \div d)
           r == n % d
       IN IF q # <<>>
          THEN FRound(q \o FracBits(r, d, Precision + 2), Len(q) - 1)
          ELSE LET z == LeadZeros(r, d)
               IN FRound(FracBits(r * 2^z, d, Precision + 2), 0 - (z + 1))

\* bits * k for a small natural k, digit i downwards with a carry
RECURSIVE MulBits(_, _, _, _)
MulBits(bits, k, i, carry) ==
  IF i = 0 THEN Bits(carry)
  ELSE LET t == bits[i] * k + carry
       IN IF t < 2 THEN Append(MulBits(bits, k, i - 1, 0), t)
          ELSE Append(MulBits(bits, k, i - 1, t \div 2), t % 2)

\* x * (k * 2^sh): the product with a double that is a small integer k > 0
\* scaled by a power of two
FMulScaled(x, k, sh) ==
  IF x = FZero THEN FZero
  ELSE LET p == MulBits(PadBits(x.hi, 26) \o PadBits(x.lo, 27), k, Precision, 0)
       IN FRound(p, x.e + (Len(p) - Precision) + sh)

\* the significand [hi, lo] + 1, carried into the exponent when it overflows
FSucc(hi, lo, e) ==
  IF lo + 1 < TwoLo THEN [hi |-> hi, lo |-> lo + 1, e |-> e]
  ELSE IF hi + 1 < TwoHi THEN [hi |-> hi + 1, lo |-> 0, e |-> e]
  ELSE [hi |-> TwoHi \div 2, lo |-> 0, e |-> e + 1]

\* x + y for x.e >= y.e.  With d the difference of the exponents, y's
\* significand is split into q (its digits at or above x's last place) and rem
\* (the d digits below); x's significand plus q is the sum's, rem decides the
\* rounding.  When the sum has 54 digits its last digit is dropped too.
FAddOrdered(x, y) ==
  LET d == x.e - y.e IN
  IF d >= Precision + 1 THEN x
  ELSE LET k == IF d > 27 THEN d - 27 ELSE 0
           qHi == IF d > 27 THEN 0 ELSE y.hi \div 2^d
           qLo == IF d > 27 THEN y.hi \div 2^k
                  ELSE (y.hi % 2^d) * 2^(27 - d) + y.lo \div 2^d
           remHi == IF d > 27 THEN y.hi % 2^k ELSE 0
           remLo == IF d > 27 THEN y.lo ELSE y.lo % 2^d
           halfHi == IF d > 27 THEN 2^(d - 28) ELSE 0
           halfLo == IF d > 27 \/ d = 0 THEN 0 ELSE 2^(d - 1)
           above == remHi > halfHi \/ (remHi = halfHi /\ remLo > halfLo)
           tie == d > 0 /\ remHi = halfHi /\ remLo = halfLo
           sLo == (x.lo + qLo) % TwoLo
           sHi == x.hi + qHi + (x.lo + qLo) \div TwoLo
       IN IF sHi < TwoHi
          THEN IF d > 0 /\ (above \/ (tie /\ sLo % 2 = 1))
               THEN FSucc(sHi, sLo, x.e)
               ELSE [hi |-> sHi, lo |-> sLo, e |-> x.e]
          ELSE LET mHi == sHi \div 2
                   mLo == (sHi % 2) * (TwoLo \div 2) + sLo \div 2
                   dropped == sLo % 2 = 1
                   rest == remHi > 0 \/ remLo > 0
               IN IF dropped /\ (rest \/ mLo % 2 = 1)
                  THEN FSucc(mHi, mLo, x.e + 1)
                  ELSE [hi |-> mHi, lo |-> mLo, e |-> x.e + 1]

FAdd(x, y) ==
  IF x = FZero THEN y
  ELSE IF y = FZero THEN x
  ELSE IF x.e >= y.e THEN FAddOrdered(x, y)
  ELSE FAddOrdered(y, x)

\* x >= y
FGe(x, y) ==
  IF y = FZero THEN TRUE
  ELSE IF x = FZero THEN FALSE
  ELSE IF x.e # y.e THEN x.e > y.e
  ELSE IF x.hi # y.hi THEN x.hi > y.hi
  ELSE x.lo >= y.lo

\* ------------------------------------------------------- optional values
\* A field that may be undefined is a sequence: <<>> or <<value>>.
Undefined == <<>>
Some(v) == <<v>>
OrZero(o) == IF o = Undefined THEN 0 ELSE o[1]

\* ---------------------------------------------------- token accounting
\* Prices per 1M tokens.  A price is the double k * 2^sh (0.25 = 1 * 2^-2,
\* 1.25 = 5 * 2^-2).
TOKEN_PRICING ==
  [m \in {"claude-opus-4-5-20251101", "claude-sonnet-4-5-20250929",
          "claude-3-5-haiku-20241022"} |->
     CASE m = "claude-opus-4-5-20251101" ->
            [input |-> [k |-> 15, sh |-> 0], output |-> [k |-> 75, sh |-> 0]]
       [] m = "claude-sonnet-4-5-20250929" ->
            [input |-> [k |-> 3, sh |-> 0], output |-> [k |-> 15, sh |-> 0]]
       [] m = "claude-3-5-haiku-20241022" ->
            [input |-> [k |-> 1, sh |-> 0 - 2], output |-> [k |-> 5, sh |-> 0 - 2]]]

\* TOKEN_PRICING[model] || TOKEN_PRICING['claude-sonnet-4-5-20250929']
pricingFor(model) ==
  IF model \in DOMAIN TOKEN_PRICING THEN TOKEN_PRICING[model]
  ELSE TOKEN_PRICING["claude-sonnet-4-5-20250929"]

\* the roles that report usage with the model each resolves to: one model
\* with a price, one without
StoreRoles == {"planner", "scout"}
ModelOf(agentId) ==
  IF agentId = "planner" THEN "claude-opus-4-5-20251101" ELSE "unlisted-model"

\* TokenUsage {inputTokens, outputTokens, totalTokens, cost?}
Usage(i, o, t, c) ==
  [inputTokens |-> i, outputTokens |-> o, totalTokens |-> t, cost |-> c]

\* usages reported by the worker: two without a cost, one that carries 0.05
Usages ==
  {Usage(100, 50, 150, Undefined), Usage(100, 100, 200, Undefined),
   Usage(500, 200, 700, Some(divide(5, 100)))}

\* the usage that is the sum of two
UsageSum(u1, u2) ==
  Usage(u1.inputTokens + u2.inputTokens, u1.outputTokens + u2.outputTokens,
        u1.totalTokens + u2.totalTokens,
        IF u1.cost = Undefined \/ u2.cost = Undefined THEN Undefined
        ELSE Some(FAdd(u1.cost[1], u2.cost[1])))

UsagePairs == {p \in Usages \X Usages : (p[1].cost = Undefined) = (p[2].cost = Undefined)}

\* Lines 514-520: the cost of a usage.
computeCost(usage, model) ==
  IF usage.cost # Undefined THEN usage.cost[1]
  ELSE LET pricing == pricingFor(model)
       IN FAdd(FMulScaled(divide(usage.inputTokens, 1000000),
                          pricing.input.k, pricing.input.sh),
               FMulScaled(divide(usage.outputTokens, 1000000),
                          pricing.output.k, pricing.output.sh))

\* models.ts lines 76-81: MODELS holds the prices of TOKEN_PRICING under the
\* same three ids, with the same default.
calculateCost(modelId, inputTokens, outputTokens) ==
  LET model == pricingFor(modelId)
  IN FAdd(FMulScaled(divide(inputTokens, 1000000), model.input.k, model.input.sh),
          FMulScaled(divide(outputTokens, 1000000), model.output.k, model.output.sh))

\* src/lib/stateManager.ts lines 57-62: the cost that revision of addTokenUsage
\* adds to the totals and writes back into the usage.
addTokenUsageCost(usage, model) ==
  calculateCost(model, usage.inputTokens, usage.outputTokens)

\* computeCost tabulated for the usages written here and their sums
CostTable ==
  [c \in (Usages \cup {UsageSum(p[1], p[2]) : p \in UsagePairs})
          \X {ModelOf(r) : r \in StoreRoles} |-> computeCost(c[1], c[2])]
  @@ [c \in {} |-> FZero]

costOf(usage, model) ==
  IF <<usage, model>> \in DOMAIN CostTable THEN CostTable[<<usage, model>>]
  ELSE computeCost(usage, model)

\* budgets a client sets: daily limits and warning fractions (num / den)
BudgetDailies == {1000}
WarningFractions == {<<4, 5>>}

\* divide tabulated for the quotients taken here: daily tokens by a daily
\* limit, the warning fractions and 1
MaxDailyTokens ==
  (MaxWrites + 2) * (CHOOSE t \in {u.totalTokens : u \in Usages} :
                       \A u \in Usages : u.totalTokens <= t)
DivideTable ==
  [p \in ((0..MaxDailyTokens) \X BudgetDailies) \cup WarningFractions \cup {<<1, 1>>}
     |-> divide(p[1], p[2])]
  @@ [p \in {} |-> FZero]

FDiv(n, d) ==
  IF <<n, d>> \in DOMAIN DivideTable THEN DivideTable[<<n, d>>] ELSE divide(n, d)

FOne == FDiv(1, 1)

\* Milliseconds.  The clock starts two days after the epoch: as for every
\* real Date.now(), more than a day lies between the epoch and now.
HourMs == 60 * 60 * 1000
oneDayMs == 24 * 60 * 60 * 1000
StartTime == 2 * oneDayMs
TickSteps == {12 * HourMs, 13 * HourMs}
MaxClock == StartTime + MaxTicks * 13 * HourMs

\* ProjectTokenStats as loadTokenStats / resetTokenStats build it, less
\* lastUpdated, a stamp that no operation reads
DefaultStats(now) ==
  [totalInputTokens |-> 0, totalOutputTokens |-> 0, totalTokens |-> 0,
   totalCost |-> FZero, sessionCount |-> 0, byAgent |-> <<>>,
   sessionStartTime |-> now, lastResetTime |-> now,
   budget |-> Undefined, dailyTokens |-> Undefined, dailyResetTime |-> Undefined]

\* variant: a full day is enough
dayElapsed_Inclusive(now, lastReset) == now - lastReset >= oneDayMs

\* Line 566: more than 24 hours since the last reset.
dayElapsed(now, lastReset) == now - lastReset > oneDayMs

\* variant: the daily counter restarts on every write
checkDailyReset_EveryWrite(ts, now) ==
  [ts EXCEPT !.dailyTokens = Some(0), !.dailyResetTime = Some(now)]

\* Lines 560-570.
checkDailyReset(ts, now) ==
  IF dayElapsed(now, OrZero(ts.dailyResetTime))
  THEN [ts EXCEPT !.dailyTokens = Some(0), !.dailyResetTime = Some(now)]
  ELSE ts

EvTokenStats == <<"emit", "tokenStatsChanged">>
EvBudget(name, dailyTokens, daily) == <<"emit", name, dailyTokens, daily>>

\* variant: the warning threshold is tested first
checkBudgetWarning_WarningFirst(ts) ==
  IF ts.budget = Undefined \/ ~ts.budget[1].enabled THEN <<>>
  ELSE LET budget == ts.budget[1]
           dailyTokens == OrZero(ts.dailyTokens)
           percentage == FDiv(dailyTokens, budget.daily)
       IN IF FGe(percentage, budget.warning)
          THEN <<EvBudget("budgetWarning", dailyTokens, budget.daily)>>
          ELSE IF FGe(percentage, FOne)
          THEN <<EvBudget("budgetExceeded", dailyTokens, budget.daily)>>
          ELSE <<>>

\* Lines 575-587: the budget events of a write.
checkBudgetWarning(ts) ==
  IF ts.budget = Undefined \/ ~ts.budget[1].enabled THEN <<>>
  ELSE LET budget == ts.budget[1]
           dailyTokens == OrZero(ts.dailyTokens)
           percentage == FDiv(dailyTokens, budget.daily)
       IN IF FGe(percentage, FOne)
          THEN <<EvBudget("budgetExceeded", dailyTokens, budget.daily)>>
          ELSE IF FGe(percentage, budget.warning)
          THEN <<EvBudget("budgetWarning", dailyTokens, budget.daily)>>
          ELSE <<>>

ZeroUsage == Usage(0, 0, 0, FZero)

\* variant: the role's entry holds the last write only
addToAgent_Overwrite(entry, usage, cost) ==
  Usage(usage.inputTokens, usage.outputTokens, usage.totalTokens, cost)

\* Lines 545-548: the role's entry after a write.
addToAgent(entry, usage, cost) ==
  Usage(entry.inputTokens + usage.inputTokens,
        entry.outputTokens + usage.outputTokens,
        entry.totalTokens + usage.totalTokens,
        FAdd(entry.cost, cost))

\* Lines 512-555: the stats after addTokenUsage and the events it emits.
addTokenUsage(ts, now, agentId, usage, model) ==
  LET cost == costOf(usage, model)
      t1 == checkDailyReset(ts, now)
      entry == IF MapHas(t1.byAgent, agentId) THEN MapGet(t1.byAgent, agentId)
               ELSE ZeroUsage
      t2 == [t1 EXCEPT
               !.totalInputTokens = @ + usage.inputTokens,
               !.totalOutputTokens = @ + usage.outputTokens,
               !.totalTokens = @ + usage.totalTokens,
               !.totalCost = FAdd(@, cost),
               !.sessionCount = @ + 1,
               !.dailyTokens = Some(OrZero(@) + usage.totalTokens),
               !.byAgent = MapSet(@, agentId, addToAgent(entry, usage, cost))]
  IN [ts |-> t2, fd |-> <<EvTokenStats>> \o checkBudgetWarning(t2)]

\* Lines 592-596.
setBudget(ts, daily, warning) ==
  [ts EXCEPT !.budget = Some([daily |-> daily, warning |-> warning, enabled |-> TRUE])]

\* Lines 601-607.
disableBudget(ts) ==
  IF ts.budget # Undefined
  THEN [ts EXCEPT !.budget = Some([@[1] EXCEPT !.enabled = FALSE])]
  ELSE ts

\* Lines 612-621: null, or {enabled, percentage, remaining}.
getBudgetStatus(ts) ==
  IF ts.budget = Undefined \/ ~ts.budget[1].enabled THEN Undefined
  ELSE LET dailyTokens == OrZero(ts.dailyTokens)
           daily == ts.budget[1].daily
       IN Some([enabled |-> TRUE, percentage |-> FDiv(dailyTokens, daily),
                remaining |-> IF daily - dailyTokens > 0 THEN daily - dailyTokens ELSE 0])

\* ------------------------------------------------------ prompts (text)
\* Text is a sequence of tokens; template literals and join('\n') become
\* concatenation of token sequences.
initialPrompt == <<"task">>

OrElse(a, b) == IF a # <<>> THEN a ELSE b

buildSystemContext(agentId) == <<"# You are:", AgentName(agentId)>>

buildChainContext(previousOutputs) ==
  IF Len(previousOutputs) = 0 THEN <<>>
  ELSE <<"---", "**Context from Previous Agents:**">>
       \o Flatten([i \in 1..Len(previousOutputs) |->
            <<"### Output from", previousOutputs[i].k, "~~~">>
            \o previousOutputs[i].v \o <<"~~~">>])

buildAggregationPrompt(allOutputs, originalTask) ==
  <<"# Aggregation Task", "**Original Request:**">> \o originalTask
  \o <<"**Collected Outputs from Agents:**">>
  \o Flatten([i \in 1..Len(allOutputs) |->
       <<"## From", allOutputs[i].k, "~~~">> \o allOutputs[i].v \o <<"~~~">>])
  \o <<"---", "**Your Task:**", "Synthesize", "Identify">>

\* variant: the retry prompt leaves the failed prompt out
buildRetryPrompt_NoOriginal(agentId, originalPrompt, error, attemptNumber) ==
  buildSystemContext(agentId)
  \o <<"---", "**RETRY ATTEMPT", ToString(attemptNumber), "failed with:", "~~~">>
  \o error \o <<"~~~", "**Original Request:**", "Please try again">>

buildRetryPrompt(agentId, originalPrompt, error, attemptNumber) ==
  buildSystemContext(agentId)
  \o <<"---", "**RETRY ATTEMPT", ToString(attemptNumber), "failed with:", "~~~">>
  \o error \o <<"~~~", "**Original Request:**">> \o originalPrompt
  \o <<"Please try again">>

\* ---------------------------------------------------------- worker results
\* RunResult {success, output, error, tokenUsage?}.  The worker is external:
\* the text it produces for an invocation is drawn from WorkerOutputs, its
\* error text from WorkerErrors; a successful run reports ReportedUsage.
WorkerOutputs(slot, retryCount) == {<<"out", ToString(slot), ToString(retryCount)>>}
WorkerErrors == {<<"boom">>}
ReportedUsage == Usage(100, 50, 150, Undefined)

NoResult ==
  [success |-> FALSE, output |-> <<>>, error |-> <<>>, tokenUsage |-> Undefined]
NotFoundResult(agentId) ==
  [success |-> FALSE, output |-> <<>>, error |-> <<"Agent", agentId, "not found">>,
   tokenUsage |-> Undefined]

\* ------------------------------------------------------------ AgentState
\* Date.now() stamps are modelled by their presence (TRUE = stamped).
\* Absent stands for the undefined that Map.get returns for a missing key.
Absent ==
  [status |-> "absent", output |-> <<>>, error |-> <<>>, retryCount |-> 0,
   startTime |-> FALSE, endTime |-> FALSE]

RunningState(retryCount) ==
  [status |-> "running", output |-> <<>>, error |-> <<>>,
   retryCount |-> retryCount, startTime |-> TRUE, endTime |-> FALSE]

\* variant: the final state forgets the attempt's retry count
FinalState_NoRetryCount(result, retryCount) ==
  [status |-> IF result.success THEN "completed" ELSE "error",
   output |-> result.output, error |-> result.error,
   retryCount |-> 0, startTime |-> FALSE, endTime |-> TRUE]

FinalState(result, retryCount) ==
  [status |-> IF result.success THEN "completed" ELSE "error",
   output |-> result.output, error |-> result.error,
   retryCount |-> retryCount, startTime |-> FALSE, endTime |-> TRUE]

StoppedState(state) == [state EXCEPT !.status = "stopped", !.endTime = TRUE]

\* ------------------------------------------------------------- workflows
Patterns == {"sequential", "parallel", "fan-out"}

\* a step is {agentId, input?}; the scout steps carry an explicit input
StepChoices ==
  {[agentId |-> r, input |-> <<>>] : r \in Roles \ {"scout"}}
  \cup {[agentId |-> "scout", input |-> <<"stepInput">>]}

StepLists == UNION {[1..n -> StepChoices] : n \in 1..MaxSteps}

\* call slots: slot i is the runAgentWithRetry call made for step i; slot 0 is
\* the call made for the aggregator by executeFanOut.
AggSlot == 0
Slots == 0..MaxSteps

\* output is the local variable that gathers the chunks of the attempt in flight;
\* invoked lists the retryCount of every runner.run made for the call, outcomes
\* the success flag of every result the worker delivered for it.
UnusedCall ==
  [phase |-> "unused", agentId |-> "none", prompt |-> <<>>, retryCount |-> 0,
   result |-> NoResult, invoked |-> <<>>, outcomes |-> <<>>, output |-> <<>>]

VARIABLES
  workflow,                \* the Workflow passed to execute: [pattern, steps]
  maxRetries,              \* options.maxRetries
  pc,                      \* execute(): "idle", "running", "returned", "threw"
  microtask,               \* pending promise continuation, <<"none">> if idle
  isRunning,               \* WorkflowRunner.isRunning
  outputs,                 \* WorkflowRunner.outputs (Map)
  stepIdx,                 \* executeSequential: index of the loop's step
  currentPrompt,           \* executeSequential: currentPrompt
  previousOutputs,         \* executeSequential: previousOutputs (Map)
  calls,                   \* runAgentWithRetry calls, by slot
  agentStates,             \* StateManager.agentStates
  workflowState,           \* StateManager.workflowStates[workflow.id]
  runnerAbortControllers,  \* StateManager.runnerAbortControllers (its keys)
  fired,                   \* events, callbacks and worker calls fired by the
                           \* last step that fired any, in order
  cancelled,               \* history: the slots whose role was stopped while
                           \* the slot's invocation was in flight
  tokenStats,              \* StateManager.tokenStats
  clock,                   \* Date.now()
  globalState,             \* context.globalState['claudekit.tokenStats']
  conversationHistories,   \* StateManager.conversationHistories (Map)
  currentProcess           \* AgentRunner: the worker process of a run and
                           \* what the run has gathered from it

vars ==
  <<workflow, maxRetries, pc, microtask, isRunning, outputs, stepIdx,
    currentPrompt, previousOutputs, calls, agentStates, workflowState,
    runnerAbortControllers, fired, cancelled, tokenStats, clock, globalState,
    conversationHistories, currentProcess>>

acctVars == <<tokenStats, clock, globalState>>

\* what no step of the runner writes
restVars == <<cancelled, acctVars, conversationHistories, currentProcess>>

runnerVars ==
  <<workflow, maxRetries, pc, microtask, isRunning, outputs, stepIdx,
    currentPrompt, previousOutputs, calls, workflowState>>

\* ------------------------------------------------ AgentRunner.run: data
\* What the worker process writes to stdout, one line per chunk: plain text,
\* two response envelopes (the second's result contains 'error'), and JSON
\* texts that are not an envelope.
StdoutLines ==
  {"All done.",
   "{\"result\":\"done\",\"session_id\":\"s1\",\"usage\":{\"input_tokens\":100,\"output_tokens\":50}}",
   "{\"result\":\"error: rate limit\"}",
   "{\"message\":\"overloaded\"}",
   "42",
   "null",
   "{\"result\":5}"}
StderrLines == {"warning"}
ExitCodes == {"0", "1", "null"}

\* JSON values: null, a number, or an object given by the fields the code
\* reads (Undefined when the object lacks the field).  A result is a string
\* (a token sequence) or a number.
JsonNull == [type |-> "null"]
JsonNumber(n) == [type |-> "number", value |-> n]
JsonString(text) == [type |-> "string", value |-> text]
JsonObject(result, usage, session_id) ==
  [type |-> "object", result |-> result, usage |-> usage, session_id |-> session_id]
SyntaxError == [type |-> "SyntaxError"]

\* JSON.parse(text.trim()) of the lines gathered from stdout.  Two lines, or
\* none, are not a JSON text.
JSONparse(text) ==
  IF Len(text) # 1 THEN SyntaxError
  ELSE CASE text[1] = "{\"result\":\"done\",\"session_id\":\"s1\",\"usage\":{\"input_tokens\":100,\"output_tokens\":50}}" ->
              JsonObject(Some(JsonString(<<"done">>)),
                         Some([input_tokens |-> 100, output_tokens |-> 50]), Some("s1"))
         [] text[1] = "{\"result\":\"error: rate limit\"}" ->
              JsonObject(Some(JsonString(<<"error", ": rate limit">>)), Undefined, Undefined)
         [] text[1] = "{\"message\":\"overloaded\"}" ->
              JsonObject(Undefined, Undefined, Undefined)
         [] text[1] = "{\"result\":5}" ->
              JsonObject(Some(JsonNumber(5)), Undefined, Undefined)
         [] text[1] = "42" -> JsonNumber(42)
         [] text[1] = "null" -> JsonNull
         [] OTHER -> SyntaxError

\* Lines 34-62 of part_003: null when JSON.parse throws or when reading
\* response.usage throws (response is null); of a number every field read is
\* undefined.  result is response.result || ''.
parseClaudeJsonResponse(jsonOutput) ==
  LET response == JSONparse(jsonOutput)
  IN IF response.type \in {"SyntaxError", "null"} THEN Undefined
     ELSE LET usage == IF response.type = "object" THEN response.usage ELSE Undefined
              result == IF response.type = "object" THEN response.result ELSE Undefined
              inputTokens == IF usage = Undefined THEN 0 ELSE usage[1].input_tokens
              outputTokens == IF usage = Undefined THEN 0 ELSE usage[1].output_tokens
          IN Some([result |-> IF result = Undefined THEN JsonString(<<>>) ELSE result[1],
                   tokenUsage |-> Some(Usage(inputTokens, outputTokens,
                                             inputTokens + outputTokens, Undefined)),
                   sessionId |-> IF response.type = "object" THEN response.session_id
                                 ELSE Undefined])

\* RunResult of AgentRunner.run {success, output, error?, exitCode?,
\* tokenUsage?, sessionId?}
RunResult(success, output, error, exitCode, tokenUsage, sessionId) ==
  [success |-> success, output |-> output, error |-> error, exitCode |-> exitCode,
   tokenUsage |-> tokenUsage, sessionId |-> sessionId]

\* The run of an AgentRunner: phase "none" before run(), "running" while the
\* process lives, "resolved" when the promise has resolved with result,
\* "thrown" when a listener threw and the promise stays pending; output and
\* errorOutput are the locals of run(), ended and code are how the process
\* ended.
NoProcess ==
  [phase |-> "none", output |-> <<>>, errorOutput |-> <<>>, ended |-> "no",
   code |-> "none", result |-> Undefined]

NoWorkflowState ==
  [status |-> "absent", currentStep |-> 0, startTime |-> FALSE, endTime |-> FALSE]

\* variant: the record of a new run carries an end stamp
RunningWorkflowState_Ended ==
  [status |-> "running", currentStep |-> 0, startTime |-> TRUE, endTime |-> TRUE]

\* Lines 43-49: the record execute() starts with.
RunningWorkflowState ==
  [status |-> "running", currentStep |-> 0, startTime |-> TRUE, endTime |-> FALSE]

\* Lines 66-70, 77-81: {...workflowState, status, endTime}
EndedWorkflowState(status) ==
  [RunningWorkflowState EXCEPT !.status = status, !.endTime = TRUE]

Init ==
  /\ workflow \in [pattern : Patterns, steps : StepLists]
  /\ maxRetries \in 0..MaxRetriesBound
  /\ pc = "idle"
  /\ microtask = <<"none">>
  /\ isRunning = FALSE
  /\ outputs = <<>>
  /\ stepIdx = 1
  /\ currentPrompt = <<>>
  /\ previousOutputs = <<>>
  /\ calls = [s \in Slots |-> UnusedCall]
  /\ agentStates = <<>>
  /\ workflowState = NoWorkflowState
  /\ runnerAbortControllers = {}
  /\ fired = <<>>
  /\ cancelled = {}
  /\ tokenStats = DefaultStats(StartTime)
  /\ clock = StartTime
  /\ globalState = Undefined
  /\ conversationHistories = <<>>
  /\ currentProcess = NoProcess

NumSteps == Len(workflow.steps)

\* ---------------------------------------------------- StateManager events
getAgentState(as, agentId) == IF MapHas(as, agentId) THEN MapGet(as, agentId) ELSE Absent

EvAgent(agentId, state) == <<"emit", "agentStateChanged", agentId, state.status>>
EvWorkflow(status) == <<"emit", "workflowStateChanged", status>>

\* variant: a role that is running is not started again; the second
\* invocation is rejected
StartAttempt_Guarded(S, slot, agentId, prompt, retryCount) ==
  IF ~hasAgent(agentId) \/ getAgentState(S.as, agentId).status = "running"
  THEN [S EXCEPT !.cs[slot] =
          [@ EXCEPT !.phase = "returned", !.agentId = agentId,
                    !.prompt = prompt, !.retryCount = retryCount,
                    !.result = NotFoundResult(agentId)]]
  ELSE [as |-> MapSet(S.as, agentId, RunningState(retryCount)),
        cs |-> [S.cs EXCEPT ![slot] =
                 [@ EXCEPT !.phase = "inflight", !.agentId = agentId,
                           !.prompt = prompt, !.retryCount = retryCount,
                           !.result = NoResult,
                           !.invoked = Append(@, retryCount),
                           !.output = <<>>]],
        fd |-> S.fd \o << <<"cb", "onAgentStart", agentId>>,
                          EvAgent(agentId, RunningState(retryCount)),
                          <<"run", agentId>> >>]

\* ------------------------------------------------ runAgentWithRetry: start
\* Lines 186-210: from the call to the await of runner.run.  S carries the
\* agent states, the calls and the events fired so far in this step.
StartAttempt(S, slot, agentId, prompt, retryCount) ==
  IF ~hasAgent(agentId)
  THEN [S EXCEPT !.cs[slot] =
          [@ EXCEPT !.phase = "returned", !.agentId = agentId,
                    !.prompt = prompt, !.retryCount = retryCount,
                    !.result = NotFoundResult(agentId)]]
  ELSE [as |-> MapSet(S.as, agentId, RunningState(retryCount)),
        cs |-> [S.cs EXCEPT ![slot] =
                 [@ EXCEPT !.phase = "inflight", !.agentId = agentId,
                           !.prompt = prompt, !.retryCount = retryCount,
                           !.result = NoResult,
                           !.invoked = Append(@, retryCount),
                           !.output = <<>>]],
        fd |-> S.fd \o << <<"cb", "onAgentStart", agentId>>,
                          EvAgent(agentId, RunningState(retryCount)),
                          <<"run", agentId>> >>]

Here == [as |-> agentStates, cs |-> calls, fd |-> <<>>]

\* the events fd of a step become visible; a step that fires none leaves fired
Fire(fd) == fired' = IF fd = <<>> THEN fired ELSE fd

\* --------------------------------------------------------------- execute
\* Lines 38-50: the synchronous head of execute().
Execute ==
  /\ pc = "idle"
  /\ microtask = <<"none">>
  /\ pc' = "running"
  /\ isRunning' = TRUE
  /\ outputs' = <<>>
  /\ workflowState' = RunningWorkflowState
  /\ fired' = <<EvWorkflow("running")>>
  /\ microtask' = <<"pattern">>
  /\ UNCHANGED <<workflow, maxRetries, stepIdx, currentPrompt, previousOutputs,
                 calls, agentStates, runnerAbortControllers,
                 restVars>>

stepPrompt(step) == OrElse(step.input, initialPrompt)

\* variant: a step that was never started counts as pending
AllSettled_NoneSkipped(cs) == \A i \in 1..NumSteps : cs[i].phase = "returned"

\* Promise.allSettled(promises): every call that was made has resolved.
AllSettled(cs) == \A i \in 1..NumSteps : cs[i].phase \in {"unused", "returned"}

\* Lines 94-96: entry of executeSequential.
ExecuteSequential ==
  /\ microtask = <<"pattern">>
  /\ workflow.pattern = "sequential"
  /\ currentPrompt' = initialPrompt
  /\ previousOutputs' = <<>>
  /\ stepIdx' = 1
  /\ microtask' = <<"seqLoop">>
  /\ UNCHANGED fired
  /\ UNCHANGED <<workflow, maxRetries, pc, isRunning, outputs, calls,
                 agentStates, workflowState, runnerAbortControllers,
                 restVars>>

\* variant: the loop goes on to the next step without awaiting the call
AwaitStep_FireAndForget(i) == [microtask |-> <<"seqLoop">>, stepIdx |-> i + 1]

\* Line 109: const result = await this.runAgentWithRetry(...): the loop is
\* suspended at step i until the call resolves.
AwaitStep(i) == [microtask |-> <<"none">>, stepIdx |-> i]

\* Lines 98-109: one iteration of the loop, up to the await.
SeqLoop ==
  /\ microtask = <<"seqLoop">>
  /\ IF stepIdx > NumSteps \/ ~isRunning
     THEN /\ microtask' = <<"finish">>
          /\ UNCHANGED fired
          /\ UNCHANGED <<stepIdx, calls, agentStates>>
     ELSE LET step == workflow.steps[stepIdx] IN
          IF ~hasAgent(step.agentId)
          THEN /\ stepIdx' = stepIdx + 1
               /\ UNCHANGED fired
               /\ UNCHANGED <<microtask, calls, agentStates>>
          ELSE LET contextPrompt ==
                     IF Len(previousOutputs) > 0
                     THEN currentPrompt \o buildChainContext(previousOutputs)
                     ELSE currentPrompt
                   S == StartAttempt(Here, stepIdx, step.agentId, contextPrompt, 0)
               IN /\ agentStates' = S.as
                  /\ calls' = S.cs
                  /\ Fire(S.fd)
                  /\ microtask' = AwaitStep(stepIdx).microtask
                  /\ stepIdx' = AwaitStep(stepIdx).stepIdx
  /\ UNCHANGED <<workflow, maxRetries, pc, isRunning, outputs, currentPrompt,
                 previousOutputs, workflowState, runnerAbortControllers,
                 restVars>>

\* variant: the chain continues past a failed step
seqStepOk_Always(result) == TRUE

\* Line 111: a step's result lets the chain continue.
seqStepOk(result) == result.success

\* Lines 111-118: the loop body after the await.
SeqResume ==
  /\ microtask = <<"seqResume">>
  /\ LET step == workflow.steps[stepIdx]
         result == calls[stepIdx].result
     IN IF seqStepOk(result)
        THEN /\ outputs' = MapSet(outputs, step.agentId, result.output)
             /\ previousOutputs' =
                  MapSet(previousOutputs, AgentName(step.agentId), result.output)
             /\ currentPrompt' = stepPrompt(step)
             /\ stepIdx' = stepIdx + 1
             /\ microtask' = <<"seqLoop">>
        ELSE /\ microtask' = <<"catch">>
             /\ UNCHANGED <<outputs, previousOutputs, currentPrompt, stepIdx>>
  /\ UNCHANGED fired
  /\ UNCHANGED <<workflow, maxRetries, pc, isRunning, calls, agentStates,
                 workflowState, runnerAbortControllers,
                 restVars>>

\* steps.map(...) of executeParallel / executeFanOut: every step's call runs
\* up to its first await, in list order.
RECURSIVE StartAll(_, _, _)
StartAll(S, steps, i) ==
  IF i > Len(steps) THEN S
  ELSE StartAll(StartAttempt(S, i, steps[i].agentId, stepPrompt(steps[i]), 0),
                steps, i + 1)

\* variant: the aggregator step is not filtered out
StartAllButAggregator_NoFilter(S, steps, i) == StartAll(S, steps, i)

\* filter(s => s.agentId !== 'aggregator'), keeping each step's slot
RECURSIVE StartAllButAggregator(_, _, _)
StartAllButAggregator(S, steps, i) ==
  IF i > Len(steps) THEN S
  ELSE StartAllButAggregator(
         IF steps[i].agentId # "aggregator"
         THEN StartAttempt(S, i, steps[i].agentId, stepPrompt(steps[i]), 0)
         ELSE S,
         steps, i + 1)

\* Lines 125-132.
ExecuteParallel ==
  /\ microtask = <<"pattern">>
  /\ workflow.pattern = "parallel"
  /\ LET S == StartAll(Here, workflow.steps, 1)
     IN /\ agentStates' = S.as
        /\ calls' = S.cs
        /\ Fire(S.fd)
        /\ microtask' = IF AllSettled(S.cs) THEN <<"settled">> ELSE <<"none">>
  /\ UNCHANGED <<workflow, maxRetries, pc, isRunning, outputs, stepIdx,
                 currentPrompt, previousOutputs, workflowState,
                 runnerAbortControllers, restVars>>

\* Lines 145-155.
ExecuteFanOut ==
  /\ microtask = <<"pattern">>
  /\ workflow.pattern = "fan-out"
  /\ LET S == StartAllButAggregator(Here, workflow.steps, 1)
     IN /\ agentStates' = S.as
        /\ calls' = S.cs
        /\ Fire(S.fd)
        /\ microtask' = IF AllSettled(S.cs) THEN <<"settled">> ELSE <<"none">>
  /\ UNCHANGED <<workflow, maxRetries, pc, isRunning, outputs, stepIdx,
                 currentPrompt, previousOutputs, workflowState,
                 runnerAbortControllers, restVars>>

\* variant: failed results are collected too
RECURSIVE Collect_IgnoreSuccess(_, _, _)
Collect_IgnoreSuccess(out, cs, i) ==
  IF i > NumSteps THEN out
  ELSE Collect_IgnoreSuccess(
         IF cs[i].phase = "returned" /\ cs[i].agentId \in AGENTS
         THEN MapSet(out, cs[i].agentId, cs[i].result.output)
         ELSE out,
         cs, i + 1)

\* variant: the results are collected from the last step to the first
RECURSIVE Collect_LastFirst(_, _, _)
Collect_LastFirst(out, cs, i) ==
  IF i > NumSteps THEN out
  ELSE LET rest == Collect_LastFirst(out, cs, i + 1)
       IN IF cs[i].phase = "returned" /\ cs[i].result.success
          THEN MapSet(rest, cs[i].agentId, cs[i].result.output)
          ELSE rest

\* for (const result of results) if (fulfilled && success) outputs.set(...)
RECURSIVE Collect(_, _, _)
Collect(out, cs, i) ==
  IF i > NumSteps THEN out
  ELSE Collect(IF cs[i].phase = "returned" /\ cs[i].result.success
               THEN MapSet(out, cs[i].agentId, cs[i].result.output)
               ELSE out,
               cs, i + 1)

\* Lines 134-138 after the allSettled join.
ParallelSettled ==
  /\ microtask = <<"settled">>
  /\ workflow.pattern = "parallel"
  /\ outputs' = Collect(outputs, calls, 1)
  /\ microtask' = <<"finish">>
  /\ UNCHANGED fired
  /\ UNCHANGED <<workflow, maxRetries, pc, isRunning, stepIdx, currentPrompt,
                 previousOutputs, calls, agentStates, workflowState,
                 runnerAbortControllers, restVars>>

\* variant: the aggregator runs unconditionally
hasOutputs_Always(out) == TRUE

\* Line 165: the aggregator runs if there are outputs.
hasOutputs(out) == Len(out) > 0

\* Lines 157-171 after the allSettled join.
FanOutSettled ==
  /\ microtask = <<"settled">>
  /\ workflow.pattern = "fan-out"
  /\ LET out == Collect(outputs, calls, 1) IN
     /\ outputs' = out
     /\ IF hasOutputs(out)
        THEN LET S == StartAttempt(Here, AggSlot, "aggregator",
                                    buildAggregationPrompt(out, initialPrompt), 0)
             IN /\ agentStates' = S.as
                /\ calls' = S.cs
                /\ Fire(S.fd)
                /\ microtask' = IF S.cs[AggSlot].phase = "returned"
                                THEN <<"aggResume">> ELSE <<"none">>
        ELSE /\ microtask' = <<"finish">>
             /\ UNCHANGED fired
             /\ UNCHANGED <<calls, agentStates>>
  /\ UNCHANGED <<workflow, maxRetries, pc, isRunning, stepIdx, currentPrompt,
                 previousOutputs, workflowState, runnerAbortControllers,
                 restVars>>

\* Lines 172-174.
AggResume ==
  /\ microtask = <<"aggResume">>
  /\ LET aggregatorResult == calls[AggSlot].result
     IN outputs' = IF aggregatorResult.success
                   THEN MapSet(outputs, "aggregator", aggregatorResult.output)
                   ELSE outputs
  /\ microtask' = <<"finish">>
  /\ UNCHANGED fired
  /\ UNCHANGED <<workflow, maxRetries, pc, isRunning, stepIdx, currentPrompt,
                 previousOutputs, calls, agentStates, workflowState,
                 runnerAbortControllers, restVars>>

\* Lines 65-74, 83-87: the pattern returned.
Finish ==
  /\ microtask = <<"finish">>
  /\ workflowState' = EndedWorkflowState("completed")
  /\ fired' = <<EvWorkflow("completed"), <<"cb", "onWorkflowComplete">> >>
  /\ isRunning' = FALSE
  /\ pc' = "returned"
  /\ microtask' = <<"none">>
  /\ UNCHANGED <<workflow, maxRetries, outputs, stepIdx, currentPrompt,
                 previousOutputs, calls, agentStates, runnerAbortControllers,
                 restVars>>

\* Lines 75-85: the pattern threw.
Catch ==
  /\ microtask = <<"catch">>
  /\ workflowState' = EndedWorkflowState("error")
  /\ fired' = <<EvWorkflow("error")>>
  /\ isRunning' = FALSE
  /\ pc' = "threw"
  /\ microtask' = <<"none">>
  /\ UNCHANGED <<workflow, maxRetries, outputs, stepIdx, currentPrompt,
                 previousOutputs, calls, agentStates, runnerAbortControllers,
                 restVars>>

\* ----------------------------------------------------------- the worker
\* What runner.run can resolve to (process close or error event).
WorkerResults(slot) ==
  {[success |-> TRUE, output |-> o, error |-> <<>>,
    tokenUsage |-> Some(ReportedUsage)] :
     o \in WorkerOutputs(slot, calls[slot].retryCount)}
  \cup {[success |-> FALSE, output |-> <<>>, error |-> e, tokenUsage |-> Undefined] :
          e \in WorkerErrors}

\* Lines 209-215: the callback given to runner.run, called for a chunk of the
\* invocation in flight.
WorkerChunk(slot) ==
  /\ microtask = <<"none">>
  /\ calls[slot].phase = "inflight"
  /\ Len(calls[slot].output) < MaxChunks
  /\ LET chunk == <<ToString(Len(calls[slot].output) + 1)>>
     IN /\ calls' = [calls EXCEPT ![slot].output = @ \o chunk]
        /\ fired' = << <<"cb", "onAgentOutput", calls[slot].agentId, chunk>> >>
  /\ UNCHANGED <<workflow, maxRetries, pc, microtask, isRunning, outputs, stepIdx,
                 currentPrompt, previousOutputs, workflowState, agentStates,
                 runnerAbortControllers, restVars>>

\* variant: one retry too many
shouldRetry_OffByOne(result, retryCount) == ~result.success /\ retryCount <= maxRetries

\* Line 234: the retry condition.
shouldRetry(result, retryCount) == ~result.success /\ retryCount < maxRetries

\* variant: the callback runs before the final state is written
CompleteAttempt_CallbackFirst(slot, result) ==
  LET c == calls[slot]
      finalState == FinalState(result, c.retryCount)
  IN [as |-> MapSet(agentStates, c.agentId, finalState),
      cs |-> [calls EXCEPT ![slot] =
                [@ EXCEPT !.result = result, !.outcomes = Append(@, result.success)]],
      fd |-> << <<"cb", "onAgentComplete", c.agentId>>,
                EvAgent(c.agentId, finalState) >>]

\* Lines 217-231: final state and onAgentComplete of one attempt.
CompleteAttempt(slot, result) ==
  LET c == calls[slot]
      finalState == FinalState(result, c.retryCount)
  IN [as |-> MapSet(agentStates, c.agentId, finalState),
      cs |-> [calls EXCEPT ![slot] =
                [@ EXCEPT !.result = result, !.outcomes = Append(@, result.success)]],
      fd |-> << EvAgent(c.agentId, finalState),
                <<"cb", "onAgentComplete", c.agentId>> >>]

\* The worker's result arrives (an external event) and the code after the
\* await runs at once.  Lines 217-241: the attempt failed and is retried.
WorkerFailsRetry(slot) ==
  /\ microtask = <<"none">>
  /\ calls[slot].phase = "inflight"
  /\ \E result \in WorkerResults(slot) :
       LET c == calls[slot] IN
       /\ shouldRetry(result, c.retryCount)
       /\ LET retryPrompt ==
                buildRetryPrompt(c.agentId, c.prompt,
                                 OrElse(result.error, <<"Unknown error">>),
                                 c.retryCount + 1)
              S == StartAttempt(CompleteAttempt(slot, result), slot, c.agentId,
                                retryPrompt, c.retryCount + 1)
          IN /\ agentStates' = S.as
             /\ calls' = S.cs
             /\ Fire(S.fd)
  /\ microtask' = <<"none">>
  /\ UNCHANGED <<workflow, maxRetries, pc, isRunning, outputs, stepIdx,
                 currentPrompt, previousOutputs, workflowState,
                 runnerAbortControllers, restVars>>

\* variant: a stop abandons the invocation, whose result never arrives
WorkerReturns_UnlessStopped(slot) ==
  /\ microtask = <<"none">>
  /\ calls[slot].phase = "inflight"
  /\ getAgentState(agentStates, calls[slot].agentId).status # "stopped"
  /\ \E result \in WorkerResults(slot) :
       LET S == CompleteAttempt(slot, result)
           cs == [S.cs EXCEPT ![slot] = [@ EXCEPT !.phase = "returned"]]
       IN /\ ~shouldRetry(result, calls[slot].retryCount)
          /\ agentStates' = S.as
          /\ calls' = cs
          /\ Fire(S.fd)
          /\ microtask' =
               IF slot = AggSlot THEN <<"aggResume">>
               ELSE IF workflow.pattern = "sequential" THEN <<"seqResume">>
               ELSE IF AllSettled(cs) THEN <<"settled">>
               ELSE <<"none">>
  /\ UNCHANGED <<workflow, maxRetries, pc, isRunning, outputs, stepIdx,
                 currentPrompt, previousOutputs, workflowState,
                 runnerAbortControllers, restVars>>

\* Lines 217-231, 244: the attempt's result is the call's result; the caller
\* that awaits the call resumes next.
WorkerReturns(slot) ==
  /\ microtask = <<"none">>
  /\ calls[slot].phase = "inflight"
  /\ \E result \in WorkerResults(slot) :
       LET S == CompleteAttempt(slot, result)
           cs == [S.cs EXCEPT ![slot] = [@ EXCEPT !.phase = "returned"]]
       IN /\ ~shouldRetry(result, calls[slot].retryCount)
          /\ agentStates' = S.as
          /\ calls' = cs
          /\ Fire(S.fd)
          /\ microtask' =
               IF slot = AggSlot THEN <<"aggResume">>
               ELSE IF workflow.pattern = "sequential" THEN <<"seqResume">>
               ELSE IF AllSettled(cs) THEN <<"settled">>
               ELSE <<"none">>
  /\ UNCHANGED <<workflow, maxRetries, pc, isRunning, outputs, stepIdx,
                 currentPrompt, previousOutputs, workflowState,
                 runnerAbortControllers, restVars>>

\* ------------------------------------------------- StateManager.stopAgent
\* T carries the agent states, the controllers and the events fired so far.
\* variant: the status is not tested
stopAgent_AnyStatus(T, agentId) ==
  LET state == getAgentState(T.as, agentId) IN
  IF MapHas(T.as, agentId)
  THEN [as |-> MapSet(T.as, agentId, StoppedState(state)),
        ctl |-> T.ctl \ {agentId},
        fd |-> T.fd
               \o (IF agentId \in T.ctl THEN << <<"abort", agentId>> >> ELSE <<>>)
               \o << EvAgent(agentId, StoppedState(state)) >>]
  ELSE T

stopAgent(T, agentId) ==
  LET state == getAgentState(T.as, agentId) IN
  IF MapHas(T.as, agentId) /\ state.status = "running"
  THEN [as |-> MapSet(T.as, agentId, StoppedState(state)),
        ctl |-> T.ctl \ {agentId},
        fd |-> T.fd
               \o (IF agentId \in T.ctl THEN << <<"abort", agentId>> >> ELSE <<>>)
               \o << EvAgent(agentId, StoppedState(state)) >>]
  ELSE T

\* variant: the loop ends after the first running role
RECURSIVE stopAllAgents_FirstOnly(_, _)
stopAllAgents_FirstOnly(T, i) ==
  IF i > Len(T.as) THEN T
  ELSE IF T.as[i].v.status = "running" THEN stopAgent(T, T.as[i].k)
       ELSE stopAllAgents_FirstOnly(T, i + 1)

\* for (const state of agentStates.values()) if running: stopAgent(state.id)
RECURSIVE stopAllAgents(_, _)
stopAllAgents(T, i) ==
  IF i > Len(T.as) THEN T
  ELSE stopAllAgents(IF T.as[i].v.status = "running"
                     THEN stopAgent(T, T.as[i].k) ELSE T,
                     i + 1)

Store == [as |-> agentStates, ctl |-> runnerAbortControllers, fd |-> <<>>]

\* variant: stopping one running role stops every running role
StopAgentStep_Siblings(agentId) ==
  /\ microtask = <<"none">>
  /\ LET T == IF getAgentState(agentStates, agentId).status = "running"
              THEN stopAllAgents(Store, 1) ELSE Store
     IN /\ agentStates' = T.as
        /\ runnerAbortControllers' = T.ctl
        /\ Fire(T.fd)
  /\ UNCHANGED <<runnerVars, acctVars, conversationHistories, currentProcess>>

\* command claudekit.stopAgent: what it does to the program's state
StopAgentStep(agentId) ==
  /\ microtask = <<"none">>
  /\ LET T == stopAgent(Store, agentId)
     IN /\ agentStates' = T.as
        /\ runnerAbortControllers' = T.ctl
        /\ Fire(T.fd)
  /\ UNCHANGED <<runnerVars, acctVars, conversationHistories, currentProcess>>

StopAgentCmd(agentId) == StopAgentStep(agentId) /\ UNCHANGED cancelled

\* command claudekit.stopWorkflow: what it does to the program's state
StopWorkflowStep ==
  /\ microtask = <<"none">>
  /\ LET T == stopAllAgents(Store, 1)
     IN /\ agentStates' = T.as
        /\ runnerAbortControllers' = T.ctl
        /\ Fire(T.fd)
  /\ UNCHANGED <<runnerVars, acctVars, conversationHistories, currentProcess>>

StopWorkflowCmd == StopWorkflowStep /\ UNCHANGED cancelled

\* ------------------------------------------------------------------ Spec
Next ==
  \/ Execute
  \/ ExecuteSequential
  \/ SeqLoop
  \/ SeqResume
  \/ ExecuteParallel
  \/ ExecuteFanOut
  \/ ParallelSettled
  \/ FanOutSettled
  \/ AggResume
  \/ Finish
  \/ Catch
  \/ \E slot \in Slots : WorkerFailsRetry(slot)
  \/ \E slot \in Slots : WorkerReturns(slot)
  \/ \E agentId \in Roles : StopAgentCmd(agentId)
  \/ StopWorkflowCmd

Spec == Init /\ [][Next]_vars

\* ------------------------------------------- StateManager used on its own
\* The store's public operations called in any order by a client.
IdleState == [Absent EXCEPT !.status = "idle"]

SampleStates ==
  {IdleState, RunningState(0), RunningState(1),
   [RunningState(0) EXCEPT !.output = <<"partial">>],
   FinalState([success |-> TRUE, output |-> <<"done">>, error |-> <<>>], 0),
   FinalState([success |-> FALSE, output |-> <<>>, error |-> <<"boom">>], 1)}

MapDelete(m, k) == SelectSeq(m, LAMBDA e : e.k # k)

InitStore ==
  /\ workflow = [pattern |-> "sequential",
                 steps |-> <<[agentId |-> "planner", input |-> <<>>]>>]
  /\ maxRetries = 0
  /\ pc = "idle"
  /\ microtask = <<"none">>
  /\ isRunning = FALSE
  /\ outputs = <<>>
  /\ stepIdx = 1
  /\ currentPrompt = <<>>
  /\ previousOutputs = <<>>
  /\ calls = [s \in Slots |-> UnusedCall]
  /\ agentStates = <<>>
  /\ workflowState = NoWorkflowState
  /\ runnerAbortControllers = {}
  /\ fired = <<>>
  /\ cancelled = {}
  /\ tokenStats = DefaultStats(StartTime)
  /\ clock = StartTime
  /\ globalState = Undefined
  /\ conversationHistories = <<>>
  /\ currentProcess = NoProcess

UpdateAgentState(agentId, state) ==
  /\ agentStates' = MapSet(agentStates, agentId, state)
  /\ fired' = <<EvAgent(agentId, state)>>
  /\ UNCHANGED <<runnerAbortControllers, runnerVars, restVars>>

RegisterAbortController(agentId) ==
  /\ runnerAbortControllers' = runnerAbortControllers \cup {agentId}
  /\ UNCHANGED fired
  /\ UNCHANGED <<agentStates, runnerVars, restVars>>

ClearAgentState(agentId) ==
  /\ agentStates' = MapDelete(agentStates, agentId)
  /\ fired' = << <<"emit", "agentStateCleared", agentId>> >>
  /\ UNCHANGED <<runnerAbortControllers, runnerVars, restVars>>

ResetAllAgentStates ==
  /\ agentStates' = <<>>
  /\ fired' = << <<"emit", "allAgentStatesReset">> >>
  /\ UNCHANGED <<runnerAbortControllers, runnerVars, restVars>>

\* the fields of the runner that are not in the store
runnerFields ==
  <<workflow, maxRetries, pc, microtask, isRunning, outputs, stepIdx,
    currentPrompt, previousOutputs, calls>>

SampleWorkflowStates == {RunningWorkflowState, EndedWorkflowState("completed")}

\* Lines 815-818.
UpdateWorkflowState(state) ==
  /\ workflowState' = state
  /\ fired' = <<EvWorkflow(state.status)>>
  /\ UNCHANGED <<agentStates, runnerAbortControllers, runnerFields, restVars>>

\* Lines 820-823.
ClearWorkflowState ==
  /\ workflowState' = NoWorkflowState
  /\ fired' = << <<"emit", "workflowStateCleared">> >>
  /\ UNCHANGED <<agentStates, runnerAbortControllers, runnerFields, restVars>>

\* ---------------------------------------------- StateManager.deserialize
\* The text handed to deserialize, by what JSON.parse makes of it: a syntax
\* error, the value null, a scalar, or an object.  A field of the object is
\* missing (or falsy), a truthy scalar, or an object with its entries.
Missing == [t |-> "missing", entries |-> <<>>]
Scalar == [t |-> "scalar", entries |-> <<>>]
Obj(entries) == [t |-> "object", entries |-> entries]

WorkflowId == "workflow"

AgentsFields ==
  {Missing, Scalar, Obj(<<>>),
   Obj(<<[k |-> "scout", v |-> RunningState(0)]>>)}

WorkflowsFields ==
  {Missing, Scalar, Obj(<<>>),
   Obj(<<[k |-> WorkflowId, v |-> EndedWorkflowState("error")]>>)}

JsonTexts ==
  {[parse |-> p, agents |-> Missing, workflows |-> Missing] :
     p \in {"SyntaxError", "null", "scalar"}}
  \cup {[parse |-> "object", agents |-> a, workflows |-> w] :
          a \in AgentsFields, w \in WorkflowsFields}

\* if (data.agents): the field is there and truthy
Truthy(field) == field.t # "missing"

\* Object.entries(value): the entries of an object, none of a scalar
ObjectEntries(field) == field.entries

LogFailed == <<"console.error", "Failed to deserialize state">>

\* variant: Object.entries rejects a scalar, after the agents were assigned
deserialize_StrictEntries(T, json) ==
  IF json.parse \in {"SyntaxError", "null"} THEN [T EXCEPT !.fd = <<LogFailed>>]
  ELSE LET T1 == IF Truthy(json.agents)
                 THEN [T EXCEPT !.as = ObjectEntries(json.agents)] ELSE T
       IN IF Truthy(json.workflows)
          THEN IF json.workflows.t = "scalar"
               THEN [T1 EXCEPT !.fd = <<LogFailed>>]
               ELSE [T1 EXCEPT !.ws =
                       IF MapHas(ObjectEntries(json.workflows), WorkflowId)
                       THEN MapGet(ObjectEntries(json.workflows), WorkflowId)
                       ELSE NoWorkflowState]
          ELSE T1

\* Lines 834-852.  T carries the agent states, the state of the workflow and
\* what is logged.  JSON.parse throws on a syntax error and data.agents
\* throws on null; both are caught.  A workflow that is not among the
\* entries of data.workflows has no state afterwards.
deserialize(T, json) ==
  IF json.parse \in {"SyntaxError", "null"} THEN [T EXCEPT !.fd = <<LogFailed>>]
  ELSE LET T1 == IF Truthy(json.agents)
                 THEN [T EXCEPT !.as = ObjectEntries(json.agents)] ELSE T
       IN IF Truthy(json.workflows)
          THEN LET entries == ObjectEntries(json.workflows)
               IN [T1 EXCEPT !.ws = IF MapHas(entries, WorkflowId)
                                    THEN MapGet(entries, WorkflowId)
                                    ELSE NoWorkflowState]
          ELSE T1

\* a call of deserialize; what it logs, if anything, replaces fired
Deserialize(json) ==
  /\ LET T == deserialize([as |-> agentStates, ws |-> workflowState, fd |-> <<>>],
                          json)
     IN /\ agentStates' = T.as
        /\ workflowState' = T.ws
        /\ fired' = T.fd
  /\ UNCHANGED <<runnerAbortControllers, runnerFields, restVars>>

NextStore ==
  \/ \E agentId \in StoreRoles, state \in SampleStates : UpdateAgentState(agentId, state)
  \/ \E agentId \in StoreRoles : RegisterAbortController(agentId)
  \/ \E agentId \in StoreRoles : StopAgentCmd(agentId)
  \/ StopWorkflowCmd
  \/ \E agentId \in StoreRoles : ClearAgentState(agentId)
  \/ ResetAllAgentStates
  \/ \E state \in SampleWorkflowStates : UpdateWorkflowState(state)
  \/ ClearWorkflowState
  \/ \E json \in JsonTexts : Deserialize(json)

SpecStore == InitStore /\ [][NextStore]_vars

\* --------------------------------------- a later run of the same workflow
\* The command claudekit.runWorkflow builds a new WorkflowRunner for every
\* run: the runner's fields start afresh, the StateManager is the same.
ExecuteAgain ==
  /\ pc \in {"returned", "threw"}
  /\ microtask = <<"none">>
  /\ pc' = "running"
  /\ isRunning' = TRUE
  /\ outputs' = <<>>
  /\ stepIdx' = 1
  /\ currentPrompt' = <<>>
  /\ previousOutputs' = <<>>
  /\ calls' = [s \in Slots |-> UnusedCall]
  /\ cancelled' = {}
  /\ workflowState' = RunningWorkflowState
  /\ fired' = <<EvWorkflow("running")>>
  /\ microtask' = <<"pattern">>
  /\ UNCHANGED <<workflow, maxRetries, agentStates, runnerAbortControllers,
                 acctVars, conversationHistories, currentProcess>>

NextRerun == Next \/ ExecuteAgain

SpecRerun == Init /\ [][NextRerun]_vars

\* ------------------------------------------------- stops, with history
\* The same program with the history variable cancelled kept: a stop command
\* records the slots in flight whose role it moved from running to stopped.
StoppedInFlight ==
  {s \in Slots :
     /\ calls[s].phase = "inflight"
     /\ getAgentState(agentStates, calls[s].agentId).status = "running"
     /\ getAgentState(agentStates', calls[s].agentId).status = "stopped"}

StopAgentObserved(agentId) ==
  StopAgentStep(agentId) /\ cancelled' = cancelled \cup StoppedInFlight

StopWorkflowObserved ==
  StopWorkflowStep /\ cancelled' = cancelled \cup StoppedInFlight

\* ------------------------------------------------------------- fairness
\* The event loop runs every pending continuation, and every worker
\* invocation returns a result; commands may come or not.
RunnerStep ==
  \/ ExecuteSequential
  \/ SeqLoop
  \/ SeqResume
  \/ ExecuteParallel
  \/ ExecuteFanOut
  \/ ParallelSettled
  \/ FanOutSettled
  \/ AggResume
  \/ Finish
  \/ Catch
  \/ \E slot \in Slots : WorkerFailsRetry(slot)
  \/ \E slot \in Slots : WorkerReturns(slot)

\* the workflows run under fairness: steps of the planner, the aggregator
\* and the role without a profile (the scout differs from the planner by its
\* step input only)
InitFair ==
  /\ Init
  /\ \A i \in 1..Len(workflow.steps) : workflow.steps[i].agentId # "scout"

SpecFair == InitFair /\ [][Next]_vars /\ WF_vars(RunnerStep)

NextCancel ==
  \/ Execute
  \/ RunnerStep
  \/ \E agentId \in Roles : StopAgentObserved(agentId)
  \/ StopWorkflowObserved

SpecCancel == Init /\ [][NextCancel]_vars

\* ------------------------------------------- stopWorkflow under fairness
\* One execution with claudekit.stopWorkflow arriving at any moment, the
\* history variable kept, the event loop and the workers fair as above.
NextStopAll ==
  \/ Execute
  \/ RunnerStep
  \/ StopWorkflowObserved

\* the workflows stopped under fairness: those of InitFair, every step
\* retried at most once
InitStopAll == InitFair /\ maxRetries <= 1

SpecStopAll == InitStopAll /\ [][NextStopAll]_vars /\ WF_vars(RunnerStep)

\* ------------------------------------------------------- streamed output
\* Lines 250-256: WorkflowRunner.stop() called by a client during an
\* execution.  runner.stop() signals the process of every runner kept in
\* this.runners; the result of a call in flight still arrives through the
\* close listener: a failure when the signal ended the process, the result of
\* the process when it had exited already.
RunnerStop ==
  /\ microtask = <<"none">>
  /\ pc = "running"
  /\ isRunning
  /\ isRunning' = FALSE
  /\ UNCHANGED <<workflow, maxRetries, pc, microtask, outputs, stepIdx, currentPrompt,
                 previousOutputs, calls, workflowState, agentStates,
                 runnerAbortControllers, fired, restVars>>

\* One execution during which the runner may be stopped.
NextStop ==
  \/ Execute
  \/ RunnerStep
  \/ RunnerStop

SpecStop == Init /\ [][NextStop]_vars

\* One execution whose workers stream partial output while they run.
NextChunk ==
  \/ Execute
  \/ RunnerStep
  \/ \E slot \in Slots : WorkerChunk(slot)

SpecChunk == InitStopAll /\ [][NextChunk]_vars

\* ------------------------------------- StateManager: token accounting API
\* addTokenUsage, resetTokenStats, setBudget, disableBudget, getBudgetStatus
\* called in any order by a client while the clock advances.
storeVars ==
  <<agentStates, runnerAbortControllers, cancelled, conversationHistories,
    currentProcess>>

\* variant: a write is kept in memory only
AddTokenUsage_NotSaved(agentId, usage) ==
  /\ tokenStats.sessionCount < MaxWrites
  /\ LET r == addTokenUsage(tokenStats, clock, agentId, usage, ModelOf(agentId))
     IN /\ tokenStats' = r.ts
        /\ fired' = r.fd
  /\ UNCHANGED <<globalState, clock, storeVars, runnerVars>>

AddTokenUsage(agentId, usage) ==
  /\ tokenStats.sessionCount < MaxWrites
  /\ LET r == addTokenUsage(tokenStats, clock, agentId, usage, ModelOf(agentId))
     IN /\ tokenStats' = r.ts
        /\ globalState' = Some(r.ts)
        /\ fired' = r.fd
  /\ UNCHANGED <<clock, storeVars, runnerVars>>

\* Lines 623-638.
ResetTokenStats ==
  /\ tokenStats' = DefaultStats(clock)
  /\ globalState' = Some(DefaultStats(clock))
  /\ fired' = <<EvTokenStats>>
  /\ UNCHANGED <<clock, storeVars, runnerVars>>

SetBudget(daily, w) ==
  /\ tokenStats' = setBudget(tokenStats, daily, FDiv(w[1], w[2]))
  /\ globalState' = Some(tokenStats')
  /\ fired' = <<EvTokenStats>>
  /\ UNCHANGED <<clock, storeVars, runnerVars>>

DisableBudget ==
  /\ IF tokenStats.budget # Undefined
     THEN /\ tokenStats' = disableBudget(tokenStats)
          /\ globalState' = Some(tokenStats')
          /\ fired' = <<EvTokenStats>>
     ELSE UNCHANGED <<tokenStats, globalState, fired>>
  /\ UNCHANGED <<clock, storeVars, runnerVars>>

\* Lines 474-500: the snapshot a new StateManager starts with; x || now
\* keeps a stamp that is not 0.
loadTokenStats(saved, now) ==
  IF saved = Undefined THEN DefaultStats(now)
  ELSE [saved[1] EXCEPT !.sessionStartTime = IF @ # 0 THEN @ ELSE now,
                        !.lastResetTime = IF @ # 0 THEN @ ELSE now]

\* the extension starts again: the constructor loads the persisted snapshot
\* and emits nothing
LoadTokenStats ==
  /\ tokenStats' = loadTokenStats(globalState, clock)
  /\ agentStates' = <<>>
  /\ workflowState' = NoWorkflowState
  /\ runnerAbortControllers' = {}
  /\ conversationHistories' = <<>>
  /\ UNCHANGED <<globalState, fired, clock, cancelled, runnerFields, currentProcess>>

\* a read
GetBudgetStatus == UNCHANGED vars

\* time passes
Tick(d) ==
  /\ clock + d <= MaxClock
  /\ clock' = clock + d
  /\ UNCHANGED <<tokenStats, globalState, fired, storeVars, runnerVars>>

NextAcct ==
  \/ \E agentId \in StoreRoles, usage \in Usages : AddTokenUsage(agentId, usage)
  \/ ResetTokenStats
  \/ \E daily \in BudgetDailies, w \in WarningFractions : SetBudget(daily, w)
  \/ DisableBudget
  \/ GetBudgetStatus
  \/ LoadTokenStats
  \/ \E d \in TickSteps : Tick(d)

SpecAcct == InitStore /\ [][NextAcct]_vars

\* addTokenUsage alone: usages recorded one after the other as time passes
NextAdd ==
  \/ \E agentId \in StoreRoles, usage \in Usages : AddTokenUsage(agentId, usage)
  \/ \E d \in TickSteps : Tick(d)

SpecAdd == InitStore /\ [][NextAdd]_vars

\* -------------------------------------------------------- AgentRunner.run
\* part_003 lines 99-230.  The process is external: what it writes and how
\* it ends are events.
runOther ==
  <<runnerVars, agentStates, runnerAbortControllers, cancelled, acctVars,
    conversationHistories>>

\* Lines 67-87: none of the lines drawn here matches the token patterns.
parseTokenUsageFromText(output) == Undefined

\* Lines 105-139 and 221-228: run() spawns the process; spawn may throw.
AgentRun(spawnThrows) ==
  /\ currentProcess.phase = "none"
  /\ IF spawnThrows
     THEN LET result == RunResult(FALSE, <<>>, <<"spawn failed">>, Some(0 - 1),
                                  Undefined, Undefined)
          IN /\ currentProcess' = [currentProcess EXCEPT !.phase = "resolved",
                                     !.ended = "spawn", !.result = Some(result)]
             /\ fired' = << <<"resolve", result>> >>
     ELSE /\ currentProcess' = [currentProcess EXCEPT !.phase = "running"]
          /\ fired' = << <<"spawn">> >>
  /\ UNCHANGED runOther

\* Lines 141-149.
StdoutData(chunk) ==
  /\ currentProcess.phase = "running"
  /\ Len(currentProcess.output) < MaxChunks
  /\ currentProcess' = [currentProcess EXCEPT !.output = Append(@, chunk)]
  /\ fired' = << <<"cb", "onOutput", <<".">> >> >>
  /\ UNCHANGED runOther

\* Lines 151-158.
StderrData(chunk) ==
  /\ currentProcess.phase = "running"
  /\ Len(currentProcess.errorOutput) < MaxChunks - 1
  /\ currentProcess' = [currentProcess EXCEPT !.errorOutput = Append(@, chunk)]
  /\ fired' = << <<"cb", "onOutput", <<"[stderr]", chunk>> >> >>
  /\ UNCHANGED runOther

\* Lines 164-210: the listener of 'close'.  includes is a method of strings:
\* called on a number it throws, the listener ends there and resolve is
\* never called.
ProcessClose(code) ==
  /\ currentProcess.phase = "running"
  /\ LET output == currentProcess.output
         errorOutput == currentProcess.errorOutput
         jsonResponse == parseClaudeJsonResponse(output)
     IN IF jsonResponse # Undefined
        THEN LET r == jsonResponse[1].result
                 shown == <<"cb", "onOutput", <<"\n", r.value>> >>
             IN IF code = "0" /\ r.type # "string"
                THEN /\ currentProcess' = [currentProcess EXCEPT !.phase = "thrown",
                                             !.ended = "close", !.code = code]
                     /\ fired' = <<shown, <<"throw", "TypeError">> >>
                ELSE LET result ==
                           RunResult(code = "0" /\ ~Contains(r.value, <<"error">>),
                                     r.value, Undefined,
                                     Some(IF code = "null" THEN "0" ELSE code),
                                     jsonResponse[1].tokenUsage, jsonResponse[1].sessionId)
                     IN /\ currentProcess' = [currentProcess EXCEPT !.phase = "resolved",
                                                !.ended = "close", !.code = code,
                                                !.result = Some(result)]
                        /\ fired' = <<shown, <<"resolve", result>> >>
        ELSE LET tokenUsage == parseTokenUsageFromText(output \o errorOutput)
                 result ==
                   IF code = "0"
                   THEN RunResult(TRUE, output, Undefined, Some(code), tokenUsage,
                                  Undefined)
                   ELSE RunResult(FALSE, output,
                                  IF errorOutput # <<>> THEN errorOutput
                                  ELSE <<"Process exited with code", code>>,
                                  IF code = "null" THEN Undefined ELSE Some(code),
                                  tokenUsage, Undefined)
             IN /\ currentProcess' = [currentProcess EXCEPT !.phase = "resolved",
                                        !.ended = "close", !.code = code,
                                        !.result = Some(result)]
                /\ fired' = << <<"resolve", result>> >>
  /\ UNCHANGED runOther

\* Lines 212-220: the listener of 'error'.
ProcessError ==
  /\ currentProcess.phase = "running"
  /\ LET result == RunResult(FALSE, currentProcess.output, <<"spawn ENOENT">>,
                             Some(0 - 1), Undefined, Undefined)
     IN /\ currentProcess' = [currentProcess EXCEPT !.phase = "resolved",
                                !.ended = "error", !.result = Some(result)]
        /\ fired' = << <<"resolve", result>> >>
  /\ UNCHANGED runOther

\* one run of an AgentRunner against a process that writes and ends in any way
NextRun ==
  \/ \E spawnThrows \in BOOLEAN : AgentRun(spawnThrows)
  \/ \E chunk \in StdoutLines : StdoutData(chunk)
  \/ \E chunk \in StderrLines : StderrData(chunk)
  \/ \E code \in ExitCodes : ProcessClose(code)
  \/ ProcessError

SpecRun == InitStore /\ [][NextRun]_vars

\* ------------------------------------ StateManager: conversation histories
\* continuation ids the worker hands back
SessionIds == {"session-1", "session-2"}

\* variant: every call starts a new history
addConversationMessage_AlwaysNew(hs, now, agentId, sessionId, userPrompt, assistantResponse, tokenUsage) ==
  LET created == [agentId |-> agentId, sessionId |-> sessionId, messages |-> <<>>,
                  createdAt |-> now, lastUpdatedAt |-> now,
                  totalTokens |-> 0, totalCost |-> FZero]
  IN MapSet(hs, agentId,
       [created EXCEPT
          !.messages = @ \o <<[role |-> "user", content |-> userPrompt,
                                timestamp |-> now, tokenUsage |-> Undefined],
                               [role |-> "assistant", content |-> assistantResponse,
                                timestamp |-> now, tokenUsage |-> tokenUsage]>>,
          !.totalTokens = IF tokenUsage # Undefined
                          THEN @ + tokenUsage[1].totalTokens ELSE @,
          !.totalCost = IF tokenUsage # Undefined /\ tokenUsage[1].cost # Undefined
                        THEN FAdd(@, tokenUsage[1].cost[1]) ELSE @])

\* Lines 669-719: the histories after addConversationMessage.
addConversationMessage(hs, now, agentId, sessionId, userPrompt, assistantResponse, tokenUsage) ==
  LET created == [agentId |-> agentId, sessionId |-> sessionId, messages |-> <<>>,
                  createdAt |-> now, lastUpdatedAt |-> now,
                  totalTokens |-> 0, totalCost |-> FZero]
      history == IF MapHas(hs, agentId) THEN MapGet(hs, agentId) ELSE created
  IN MapSet(hs, agentId,
       [history EXCEPT
          !.sessionId = sessionId,
          !.lastUpdatedAt = now,
          !.messages = @ \o <<[role |-> "user", content |-> userPrompt,
                                timestamp |-> now, tokenUsage |-> Undefined],
                               [role |-> "assistant", content |-> assistantResponse,
                                timestamp |-> now, tokenUsage |-> tokenUsage]>>,
          !.totalTokens = IF tokenUsage # Undefined
                          THEN @ + tokenUsage[1].totalTokens ELSE @,
          !.totalCost = IF tokenUsage # Undefined /\ tokenUsage[1].cost # Undefined
                        THEN FAdd(@, tokenUsage[1].cost[1]) ELSE @])

AddConversationMessage(agentId, sessionId, tokenUsage) ==
  /\ MapHas(conversationHistories, agentId) =>
       Len(MapGet(conversationHistories, agentId).messages) < 2 * MaxTurns
  /\ conversationHistories' =
       addConversationMessage(conversationHistories, clock, agentId, sessionId,
                              <<"task">>, <<"done">>, tokenUsage)
  /\ fired' = << <<"emit", "conversationUpdated", agentId,
                   MapGet(conversationHistories', agentId)>> >>
  /\ UNCHANGED <<agentStates, runnerAbortControllers, cancelled, acctVars, runnerVars,
                 currentProcess>>

ClearConversationHistory(agentId) ==
  /\ conversationHistories' = MapDelete(conversationHistories, agentId)
  /\ fired' = << <<"emit", "conversationCleared", agentId>> >>
  /\ UNCHANGED <<agentStates, runnerAbortControllers, cancelled, acctVars, runnerVars,
                 currentProcess>>

ClearAllConversationHistories ==
  /\ conversationHistories' = <<>>
  /\ fired' = << <<"emit", "allConversationsCleared">> >>
  /\ UNCHANGED <<agentStates, runnerAbortControllers, cancelled, acctVars, runnerVars,
                 currentProcess>>

\* the conversation API called in any order, between runs that start the
\* planner, stops, resets of the agent states and resets of the accounting
NextConv ==
  \/ \E agentId \in StoreRoles, sessionId \in SessionIds,
        tokenUsage \in {Undefined, Some(Usage(500, 200, 700, Some(divide(5, 100))))} :
        AddConversationMessage(agentId, sessionId, tokenUsage)
  \/ \E agentId \in StoreRoles : ClearConversationHistory(agentId)
  \/ ClearAllConversationHistories
  \/ UpdateAgentState("planner", RunningState(0))
  \/ StopWorkflowCmd
  \/ ResetAllAgentStates
  \/ ResetTokenStats

SpecConv == InitStore /\ [][NextConv]_vars

\* ================================================================ claims
EventRole(e) == IF Len(e) >= 3 THEN e[3] ELSE "none"

Failures(outcomes) == Cardinality({i \in 1..Len(outcomes) : ~outcomes[i]})

Registered(slot) == calls[slot].agentId \in AGENTS

\* C1: a call for a role that has no profile returns success=false with the
\* not-found error at once: the worker is never invoked for it, it is never
\* retried, no agent state exists for the role and no event or callback of
\* any step names the role.
C1_ProfileNotFound ==
  /\ \A r \in Roles \ AGENTS :
       /\ ~MapHas(agentStates, r)
       /\ \A i \in 1..Len(fired) : EventRole(fired[i]) # r
  /\ \A s \in Slots :
       (calls[s].phase # "unused" /\ calls[s].agentId \notin AGENTS) =>
         /\ calls[s].phase = "returned"
         /\ calls[s].result = [success |-> FALSE, output |-> <<>>,
                               error |-> <<"Agent", calls[s].agentId, "not found">>,
                               tokenUsage |-> Undefined]
         /\ calls[s].invoked = <<>>
         /\ calls[s].outcomes = <<>>
         /\ calls[s].retryCount = 0

C1_Witness ==
  \E s \in Slots : calls[s].phase = "returned" /\ calls[s].agentId \notin AGENTS
                   /\ maxRetries > 0

\* C2: a call whose worker failed every time has made exactly maxRetries + 1
\* invocations when it returns, with retry counts 0..maxRetries in order, and
\* returns the failure of the last attempt; no call makes more invocations.
C2_AlwaysFailing ==
  \A s \in Slots :
    /\ Len(calls[s].invoked) <= maxRetries + 1
    /\ calls[s].invoked = [i \in 1..Len(calls[s].invoked) |-> i - 1]
    /\ (calls[s].phase = "returned" /\ Registered(s) /\ ~calls[s].result.success) =>
         /\ Len(calls[s].invoked) = maxRetries + 1
         /\ calls[s].outcomes = [i \in 1..(maxRetries + 1) |-> FALSE]
         /\ calls[s].result.error \in WorkerErrors

C2_Witness ==
  \E s \in Slots :
    /\ calls[s].phase = "returned" /\ Registered(s) /\ ~calls[s].result.success
    /\ maxRetries = MaxRetriesBound
    /\ Len(calls[s].invoked) = MaxRetriesBound + 1

\* C3: when a call returns success after N failed attempts, the worker was
\* invoked exactly N + 1 times, the role's stored state is completed with
\* retry count N at the return, and a returned call invokes the worker no more.
C3_FailThenSucceed ==
  [][\A s \in Slots :
       /\ (calls[s].phase # "returned" /\ calls'[s].phase = "returned"
           /\ calls'[s].result.success) =>
            LET N == Failures(calls'[s].outcomes)
                st == getAgentState(agentStates', calls'[s].agentId)
            IN /\ N <= maxRetries
               /\ Len(calls'[s].invoked) = N + 1
               /\ calls'[s].outcomes = [i \in 1..(N + 1) |-> i = N + 1]
               /\ st.status = "completed"
               /\ st.retryCount = N
               /\ st.output = calls'[s].result.output
       /\ calls[s].phase = "returned" => calls'[s] = calls[s]]_vars

C3_Witness ==
  \E s \in Slots :
    /\ calls[s].phase = "returned" /\ calls[s].result.success
    /\ Failures(calls[s].outcomes) = MaxRetriesBound
    /\ getAgentState(agentStates, calls[s].agentId).retryCount = MaxRetriesBound
    /\ getAgentState(agentStates, calls[s].agentId).status = "completed"

\* C4: in the sequential pattern, once a step's call has returned a failure,
\* no later step is invoked, the workflow is never completed, the callback
\* onWorkflowComplete does not fire, and when the event loop is idle again
\* execute has thrown and the workflow's state is error.
C4_SequentialAbort ==
  \A i \in 1..NumSteps :
    (workflow.pattern = "sequential" /\ calls[i].phase = "returned"
     /\ Registered(i) /\ ~calls[i].result.success) =>
      /\ \A j \in (i + 1)..NumSteps : calls[j].phase = "unused" /\ calls[j].invoked = <<>>
      /\ workflowState.status # "completed"
      /\ pc # "returned"
      /\ \A k \in 1..Len(fired) : fired[k] # <<"cb", "onWorkflowComplete">>
      /\ microtask = <<"none">> => (pc = "threw" /\ workflowState.status = "error")

C4_Witness ==
  \E i \in 1..NumSteps :
    /\ workflow.pattern = "sequential" /\ i < NumSteps
    /\ calls[i].phase = "returned" /\ Registered(i) /\ ~calls[i].result.success
    /\ hasAgent(workflow.steps[i + 1].agentId)
    /\ pc = "threw"

Succeeded == {i \in 1..NumSteps : calls[i].phase = "returned" /\ calls[i].result.success}

\* the last step, in list order, that succeeded with the role of step i
LastOfRole(i) ==
  CHOOSE j \in Succeeded :
    /\ calls[j].agentId = calls[i].agentId
    /\ \A k \in Succeeded : calls[k].agentId = calls[i].agentId => k <= j

\* C5 as stated: in the parallel pattern execute never throws, and the
\* returned map holds exactly the roles of the steps that succeeded, each
\* succeeded step's role with that step's output, the workflow completed.
C5_ParallelMapEveryStep ==
  workflow.pattern = "parallel" =>
    /\ pc # "threw"
    /\ workflowState.status # "error"
    /\ pc = "returned" =>
         /\ workflowState.status = "completed"
         /\ MapKeys(outputs) = {calls[i].agentId : i \in Succeeded}
         /\ \A i \in Succeeded :
              MapGet(outputs, calls[i].agentId) = calls[i].result.output

\* C5 amended: as above, but a role that several succeeding steps share is
\* mapped to the output of the last of those steps in list order.
C5_ParallelMap ==
  workflow.pattern = "parallel" =>
    /\ pc # "threw"
    /\ workflowState.status # "error"
    /\ pc = "returned" =>
         /\ workflowState.status = "completed"
         /\ MapKeys(outputs) = {calls[i].agentId : i \in Succeeded}
         /\ \A i \in Succeeded :
              MapGet(outputs, calls[i].agentId) = calls[LastOfRole(i)].result.output

C5_Witness ==
  /\ workflow.pattern = "parallel" /\ pc = "returned"
  /\ \E i, j \in 1..NumSteps :
       /\ calls[i].phase = "returned" /\ Registered(i) /\ ~calls[i].result.success
       /\ j \in Succeeded
       /\ Len(outputs) = 1

AggBlock(agentId, output) == <<"## From", agentId, "~~~">> \o output \o <<"~~~">>

FanOutShape ==
  /\ \A i \in 1..NumSteps :
       workflow.steps[i].agentId = "aggregator" =>
         calls[i].phase = "unused" /\ calls[i].invoked = <<>>
  /\ calls[AggSlot].phase # "unused" =>
       /\ \A i \in 1..NumSteps :
            workflow.steps[i].agentId # "aggregator" => calls[i].phase = "returned"
       /\ Contains(calls[AggSlot].prompt, <<"**Original Request:**">> \o initialPrompt)
  /\ pc = "returned" =>
       /\ MapHas(outputs, "aggregator") <=>
            (calls[AggSlot].phase = "returned" /\ calls[AggSlot].result.success)
       /\ MapHas(outputs, "aggregator") =>
            MapGet(outputs, "aggregator") = calls[AggSlot].result.output

\* C6 as stated: in the fan-out pattern no aggregator step is invoked with the
\* concurrent steps; the aggregator call starts only when every other step has
\* returned; its prompt contains the original task and, verbatim, the output
\* of every step that succeeded; its successful output is in the map under
\* the key aggregator.
C6_FanOutEveryStep ==
  workflow.pattern = "fan-out" =>
    /\ FanOutShape
    /\ calls[AggSlot].phase # "unused" =>
         \A i \in Succeeded :
           Contains(calls[AggSlot].prompt,
                    AggBlock(calls[i].agentId, calls[i].result.output))

\* C6 amended: as above, but of the succeeding steps that share a role the
\* prompt contains the output of the last one in list order.
C6_FanOut ==
  workflow.pattern = "fan-out" =>
    /\ FanOutShape
    /\ calls[AggSlot].phase # "unused" =>
         \A i \in Succeeded :
           Contains(calls[AggSlot].prompt,
                    AggBlock(calls[i].agentId, calls[LastOfRole(i)].result.output))

C6_Witness ==
  /\ workflow.pattern = "fan-out" /\ pc = "returned"
  /\ Cardinality(Succeeded) = 2
  /\ Len(outputs) = 3
  /\ calls[AggSlot].result.success

\* C7: in the fan-out pattern, while the aggregator call has not been made no
\* agent state exists for the aggregator; when execute has returned and no
\* step succeeded, the aggregator call was never made, the map is empty and
\* the workflow is completed; execute never throws.
C7_FanOutNoSuccess ==
  workflow.pattern = "fan-out" =>
    /\ pc # "threw"
    /\ calls[AggSlot].phase = "unused" => ~MapHas(agentStates, "aggregator")
    /\ (pc = "returned" /\ Succeeded = {}) =>
         /\ calls[AggSlot].phase = "unused"
         /\ calls[AggSlot].invoked = <<>>
         /\ ~MapHas(agentStates, "aggregator")
         /\ outputs = <<>>
         /\ workflowState.status = "completed"

C7_Witness ==
  /\ workflow.pattern = "fan-out" /\ pc = "returned" /\ Succeeded = {}
  /\ \E i \in 1..NumSteps : Registered(i) /\ Len(calls[i].invoked) > 1

\* C8: stop(role) on a running role sets its state to stopped keeping output,
\* error, retry count and start stamp, invokes the role's controller exactly
\* if one is registered and removes it, and touches no other role; on a role
\* that is not running it changes nothing and fires nothing: the store's
\* stopAgent returns the store as it was, with no event.
C8_Stop ==
  [][\A r \in Roles :
       StopAgentCmd(r) =>
         LET st == getAgentState(agentStates, r)
             noop == [as |-> agentStates, ctl |-> runnerAbortControllers, fd |-> <<>>]
             st2 == getAgentState(agentStates', r)
         IN IF MapHas(agentStates, r) /\ st.status = "running"
            THEN /\ st2 = [st EXCEPT !.status = "stopped", !.endTime = TRUE]
                 /\ runnerAbortControllers' = runnerAbortControllers \ {r}
                 /\ (r \in runnerAbortControllers) <=>
                      (\E i \in 1..Len(fired') : fired'[i] = <<"abort", r>>)
                 /\ \E i \in 1..Len(fired') :
                      fired'[i] = <<"emit", "agentStateChanged", r, "stopped">>
                 /\ \A q \in Roles \ {r} :
                      getAgentState(agentStates', q) = getAgentState(agentStates, q)
            ELSE /\ stopAgent(Store, r) = noop
                 /\ UNCHANGED <<agentStates, runnerAbortControllers, fired>>]_vars

C8_Witness ==
  \E r \in Roles :
    /\ fired = << <<"abort", r>>, <<"emit", "agentStateChanged", r, "stopped">> >>
    /\ getAgentState(agentStates, r).status = "stopped"
    /\ getAgentState(agentStates, r).output = <<"partial">>
    /\ r \notin runnerAbortControllers

InFlight(r) ==
  \E s \in Slots : calls[s].agentId = r /\ calls[s].phase = "inflight"

\* C9: once a role has been stopped while its invocation is in flight, the
\* role's state stays stopped when the worker's result arrives: it is moved
\* neither to completed or error nor, by a retry, back to running.
C9_StoppedWins ==
  [][\A r \in Roles :
       (getAgentState(agentStates, r).status = "stopped" /\ InFlight(r)) =>
         getAgentState(agentStates', r).status = "stopped"]_vars

\* C10: every role whose state is running because of an in-flight invocation
\* has a cancellation handle registered in the store.
C10_HandleRegistered ==
  \A s \in Slots :
    (calls[s].phase = "inflight"
     /\ getAgentState(agentStates, calls[s].agentId).status = "running") =>
      calls[s].agentId \in runnerAbortControllers

\* the output of the step of slot s is the one held in the output map
Kept(s) ==
  /\ calls[s].result.success
  /\ MapHas(outputs, calls[s].agentId)
  /\ MapGet(outputs, calls[s].agentId) = calls[s].result.output

\* C11: in the Parallel and Fan-out patterns the run returns without an
\* exception, and the output of a step whose role was stopped while its
\* invocation was in flight is not in the returned output map.
C11_CancelledOmitted ==
  (workflow.pattern \in {"parallel", "fan-out"} /\ pc \in {"returned", "threw"}) =>
    /\ pc = "returned"
    /\ \A s \in cancelled : ~Kept(s)

\* the stats after role r records u1 and then u2, and after it records their
\* sum in one write, both at the instant now
TwoWrites(ts, now, r, u1, u2) ==
  addTokenUsage(addTokenUsage(ts, now, r, u1, ModelOf(r)).ts,
                now, r, u2, ModelOf(r)).ts
OneWrite(ts, now, r, u1, u2) ==
  addTokenUsage(ts, now, r, UsageSum(u1, u2), ModelOf(r)).ts

SameTokens(a, b, r) ==
  /\ a.totalInputTokens = b.totalInputTokens
  /\ a.totalOutputTokens = b.totalOutputTokens
  /\ a.totalTokens = b.totalTokens
  /\ MapGet(a.byAgent, r).inputTokens = MapGet(b.byAgent, r).inputTokens
  /\ MapGet(a.byAgent, r).outputTokens = MapGet(b.byAgent, r).outputTokens
  /\ MapGet(a.byAgent, r).totalTokens = MapGet(b.byAgent, r).totalTokens

SameCost(a, b, r) ==
  /\ a.totalCost = b.totalCost
  /\ MapGet(a.byAgent, r).cost = MapGet(b.byAgent, r).cost

SameDaily(a, b) ==
  /\ a.dailyTokens = b.dailyTokens
  /\ a.dailyResetTime = b.dailyResetTime

\* C12 as stated: from every state of the store, recording u1 and then u2 for
\* a role leaves the token totals, the cost totals and the daily counter as
\* recording the single usage u1 + u2 leaves them.
C12_Additive ==
  \A r \in StoreRoles, p \in UsagePairs :
    LET a == TwoWrites(tokenStats, clock, r, p[1], p[2])
        b == OneWrite(tokenStats, clock, r, p[1], p[2])
    IN SameTokens(a, b, r) /\ SameCost(a, b, r) /\ SameDaily(a, b)

\* C12: from every state of the store, recording u1 and then u2 for a role
\* leaves the global and per-role token totals (input, output, total) and
\* the daily counter as recording the single usage u1 + u2 leaves them.
C12_AdditiveTokens ==
  \A r \in StoreRoles, p \in UsagePairs :
    LET a == TwoWrites(tokenStats, clock, r, p[1], p[2])
        b == OneWrite(tokenStats, clock, r, p[1], p[2])
    IN SameTokens(a, b, r) /\ SameDaily(a, b)

\* two different usages have been recorded for one role, one after the other
C12_Witness ==
  \E r \in StoreRoles, p \in UsagePairs :
    /\ p[1] # p[2]
    /\ tokenStats.sessionCount = 2
    /\ tokenStats = TwoWrites(DefaultStats(tokenStats.sessionStartTime), clock,
                              r, p[1], p[2])
    /\ SameTokens(tokenStats,
                  OneWrite(DefaultStats(tokenStats.sessionStartTime), clock,
                           r, p[1], p[2]), r)
    /\ ~SameCost(tokenStats,
                 OneWrite(DefaultStats(tokenStats.sessionStartTime), clock,
                          r, p[1], p[2]), r)

\* the sum over the roles of the per-role field f, and of the per-role costs
RECURSIVE SumField(_, _, _)
SumField(byAgent, f, i) ==
  IF i > Len(byAgent) THEN 0 ELSE byAgent[i].v[f] + SumField(byAgent, f, i + 1)

RECURSIVE SumCost(_, _, _)
SumCost(byAgent, i, acc) ==
  IF i > Len(byAgent) THEN acc
  ELSE SumCost(byAgent, i + 1, FAdd(acc, byAgent[i].v.cost))

TokenSumsAgree(ts) ==
  /\ ts.totalTokens = SumField(ts.byAgent, "totalTokens", 1)
  /\ ts.totalInputTokens = SumField(ts.byAgent, "inputTokens", 1)
  /\ ts.totalOutputTokens = SumField(ts.byAgent, "outputTokens", 1)

\* C13 as stated: in every state of the store, so at every notification, the
\* global token totals and the global cost equal the sums over the roles of
\* the per-role totals and costs.
C13_SumsWithCost ==
  /\ TokenSumsAgree(tokenStats)
  /\ tokenStats.totalCost = SumCost(tokenStats.byAgent, 1, FZero)

\* C13: in every state of the store, so at every tokenStatsChanged
\* notification, the global total, input and output token counts equal the
\* sums over the roles of the per-role counts.
C13_TokenSums == TokenSumsAgree(tokenStats)

\* after a reset, three writes by two roles have just been notified, and the
\* global cost is not the sum of the two per-role costs
C13_Witness ==
  /\ fired = <<EvTokenStats>>
  /\ tokenStats.sessionCount = 3
  /\ tokenStats.sessionStartTime > StartTime
  /\ Len(tokenStats.byAgent) = 2
  /\ TokenSumsAgree(tokenStats)
  /\ tokenStats.totalCost # SumCost(tokenStats.byAgent, 1, FZero)

\* C14: a write (the one step that raises the session count) zeroes the daily
\* counter and stamps the daily reset time before adding its tokens exactly
\* when there is no earlier daily reset or more than 24 hours have passed
\* since it; otherwise it adds its tokens to the counter and keeps the
\* stamp.  No other step, a read or the passing of time included, changes
\* the counter or the stamp while the counters of the session stand.
C14_LazyDailyReset ==
  [][LET written == tokenStats'.totalTokens - tokenStats.totalTokens
         last == tokenStats.dailyResetTime
     IN /\ (tokenStats'.sessionCount = tokenStats.sessionCount + 1) =>
             IF last = Undefined \/ clock - last[1] > 24 * HourMs
             THEN /\ tokenStats'.dailyTokens = Some(written)
                  /\ tokenStats'.dailyResetTime = Some(clock)
             ELSE /\ tokenStats'.dailyTokens =
                       Some(OrZero(tokenStats.dailyTokens) + written)
                  /\ tokenStats'.dailyResetTime = last
        /\ (tokenStats'.sessionCount = tokenStats.sessionCount) =>
             /\ tokenStats'.dailyTokens = tokenStats.dailyTokens
             /\ tokenStats'.dailyResetTime = tokenStats.dailyResetTime
        /\ (clock' # clock) => tokenStats' = tokenStats]_vars

\* a write at the start and a second one 25 hours later: the daily counter
\* holds the second write only
C14_Witness ==
  /\ clock = StartTime + 25 * HourMs
  /\ tokenStats.sessionStartTime = StartTime
  /\ tokenStats.sessionCount = 2
  /\ tokenStats.totalTokens = 300
  /\ tokenStats.dailyTokens = Some(150)
  /\ tokenStats.dailyResetTime = Some(clock)

IsBudgetEvent(e) == e[2] \in {"budgetExceeded", "budgetWarning"}

\* the budget events due for a daily counter d under the budget b, decided
\* in exact arithmetic: b.warning is the double nearest to num / den
BudgetEventsDue(b, d) ==
  IF b = Undefined THEN <<>>
  ELSE IF ~b[1].enabled THEN <<>>
  ELSE LET w == CHOOSE f \in WarningFractions : FDiv(f[1], f[2]) = b[1].warning
       IN IF d >= b[1].daily
          THEN << <<"emit", "budgetExceeded", d, b[1].daily>> >>
          ELSE IF d * w[2] >= w[1] * b[1].daily
          THEN << <<"emit", "budgetWarning", d, b[1].daily>> >>
          ELSE <<>>

\* C15: a write emits tokenStatsChanged and then the one budget event due
\* for the daily counter it leaves: exceeded at or past the daily limit,
\* else a warning at or past the warning fraction of it, else none, and none
\* with the budget unset or disabled, whatever earlier writes emitted.  No
\* other step emits a budget event.
C15_BudgetEvents ==
  [][IF tokenStats'.sessionCount = tokenStats.sessionCount + 1
     THEN fired' = <<EvTokenStats>>
                   \o BudgetEventsDue(tokenStats.budget,
                                      OrZero(tokenStats'.dailyTokens))
     ELSE fired' = fired \/ \A i \in 1..Len(fired') : ~IsBudgetEvent(fired'[i])]_vars

\* limit 1000, fraction 0.8: three writes have taken the daily counter to
\* 1050 and the last one has emitted budget-exceeded
C15_Witness ==
  /\ tokenStats.sessionCount = 3
  /\ tokenStats.dailyTokens = Some(1050)
  /\ MapHas(tokenStats.byAgent, "planner")
  /\ MapGet(tokenStats.byAgent, "planner").totalTokens = 200
  /\ fired = <<EvTokenStats, <<"emit", "budgetExceeded", 1050, 1000>> >>

\* C16: resetAll (the one step that lowers the session count) zeroes the
\* global totals, the per-role totals, the session count and the daily
\* counter, stamps the session start and the last reset with the current
\* time, and leaves the budget configuration as it was.
C16_ResetKeepsBudget ==
  [][(tokenStats'.sessionCount < tokenStats.sessionCount) =>
       /\ tokenStats'.totalInputTokens = 0
       /\ tokenStats'.totalOutputTokens = 0
       /\ tokenStats'.totalTokens = 0
       /\ tokenStats'.totalCost = FZero
       /\ tokenStats'.byAgent = <<>>
       /\ tokenStats'.sessionCount = 0
       /\ OrZero(tokenStats'.dailyTokens) = 0
       /\ tokenStats'.sessionStartTime = clock
       /\ tokenStats'.lastResetTime = clock
       /\ tokenStats'.budget = tokenStats.budget]_vars

FreshRunningRecord ==
  [status |-> "running", currentStep |-> 0, startTime |-> TRUE, endTime |-> FALSE]

\* C17: the start of an execution, the first or a later one of the same
\* workflow, sets the workflow's record to a fresh running record (step
\* index 0, start stamp, no end stamp); a running record changes only by
\* becoming completed or error, with an end stamp, as the execution ends; a
\* completed or error record changes only by the start of a later execution.
C17_WorkflowStateMachine ==
  [][/\ (pc # "running" /\ pc' = "running") => workflowState' = FreshRunningRecord
     /\ (workflowState.status = "absent" /\ workflowState' # workflowState) =>
          pc = "idle" /\ pc' = "running"
     /\ (workflowState.status = "running" /\ workflowState' # workflowState) =>
          /\ pc = "running" /\ pc' \in {"returned", "threw"}
          /\ workflowState'.status = (IF pc' = "returned" THEN "completed" ELSE "error")
          /\ workflowState'.endTime
          /\ workflowState'.currentStep = workflowState.currentStep
     /\ (workflowState.status \in {"completed", "error"}
         /\ workflowState' # workflowState) =>
          pc \in {"returned", "threw"} /\ pc' = "running"]_vars

\* a later execution has just started: the record is fresh while the agent
\* states of the earlier execution are still in the store
C17_Witness ==
  /\ pc = "running"
  /\ microtask = <<"pattern">>
  /\ workflowState = FreshRunningRecord
  /\ \E i \in 1..Len(agentStates) : agentStates[i].v.status \in {"completed", "error"}

InFlightSlots == {s \in Slots : calls[s].phase = "inflight"}

\* C18: in the Sequential pattern at most one invocation is in flight, and
\* while step i's call has been started every earlier step with a profile
\* has returned its final Result, a success reached after all its attempts,
\* and no later step has been started.
C18_OneAtATime ==
  (workflow.pattern = "sequential") =>
    /\ Cardinality(InFlightSlots) <= 1
    /\ \A i \in 1..NumSteps :
         (calls[i].phase # "unused") =>
           /\ \A j \in 1..(i - 1) :
                hasAgent(workflow.steps[j].agentId) =>
                  /\ calls[j].phase = "returned"
                  /\ calls[j].result.success
                  /\ Len(calls[j].outcomes) = Len(calls[j].invoked)
           /\ \A j \in (i + 1)..NumSteps :
                (calls[j].phase # "unused") => calls[i].phase = "returned"

\* the second step of a sequential workflow is in flight after the first
\* step failed once, was retried and succeeded
C18_Witness ==
  /\ workflow.pattern = "sequential"
  /\ NumSteps >= 2
  /\ calls[2].phase = "inflight"
  /\ calls[1].phase = "returned"
  /\ calls[1].outcomes = <<FALSE, TRUE>>

\* C19: with every pending continuation run and every invocation answered,
\* an execution in progress ends, in completed or error; a Parallel or
\* Fan-out execution ends in completed, and its record is never error.
C19_Terminates ==
  /\ (pc = "running") ~> (pc \in {"returned", "threw"})
  /\ [](/\ (pc = "returned") => workflowState.status = "completed"
        /\ (pc = "threw") => workflowState.status = "error"
        /\ (workflow.pattern # "sequential") =>
             pc # "threw" /\ workflowState.status # "error")

\* a parallel execution has ended in completed although every step failed on
\* every attempt the retry maximum allows
C19_Witness ==
  /\ workflow.pattern = "parallel"
  /\ maxRetries = MaxRetriesBound
  /\ pc = "returned"
  /\ workflowState.status = "completed"
  /\ outputs = <<>>
  /\ \A i \in 1..NumSteps :
       /\ Len(calls[i].outcomes) = maxRetries + 1
       /\ \A k \in 1..Len(calls[i].outcomes) : ~calls[i].outcomes[k]

\* the usage the store holds for a role
Recorded(ts, agentId) ==
  IF MapHas(ts.byAgent, agentId) THEN MapGet(ts.byAgent, agentId).totalTokens ELSE 0

\* C20: when the worker's result for an invocation arrives with token usage
\* reported, the role's per-role total in the accounting store grows by the
\* usage's total tokens.
C20_UsageForwarded ==
  [][\A s \in Slots :
       (/\ calls[s].phase = "inflight"
        /\ Len(calls'[s].outcomes) = Len(calls[s].outcomes) + 1
        /\ calls'[s].result.tokenUsage # Undefined) =>
         Recorded(tokenStats', calls[s].agentId) =
           Recorded(tokenStats, calls[s].agentId)
             + calls'[s].result.tokenUsage[1].totalTokens]_vars

\* C21: in the Sequential pattern the prompt of the first attempt of step i
\* is the step's own input, or the initial prompt if it has none, followed
\* by the context block of the earlier outputs exactly when there are any.
C21_OwnInput ==
  \A i \in 1..NumSteps :
    (/\ workflow.pattern = "sequential"
     /\ stepIdx = i
     /\ calls[i].phase = "inflight"
     /\ calls[i].retryCount = 0) =>
      calls[i].prompt =
        stepPrompt(workflow.steps[i])
          \o (IF Len(previousOutputs) > 0
              THEN buildChainContext(previousOutputs) ELSE <<>>)

\* C22: a call of deserialize that fails (it logs the failure) leaves the
\* agent states and the workflow state exactly as they were: no input has
\* one of them replaced before the failure.
C22_FailedDeserialize ==
  [][(fired' = <<LogFailed>>) =>
       /\ agentStates' = agentStates
       /\ workflowState' = workflowState]_vars

\* deserialize has just failed on a store that holds an agent state and a
\* workflow state
C22_Witness ==
  /\ fired = <<LogFailed>>
  /\ Len(agentStates) > 0
  /\ workflowState.status # "absent"

\* the notification e tells a subscriber what became of role r's state st
TellsAgent(e, r, st) ==
  \/ e = <<"emit", "allAgentStatesReset">> /\ st = Absent
  \/ e = <<"emit", "agentStateCleared", r>> /\ st = Absent
  \/ e = <<"emit", "agentStateChanged", r, st.status>> /\ st # Absent

TellsWorkflow(e, st) ==
  \/ e = <<"emit", "workflowStateCleared">> /\ st = NoWorkflowState
  \/ e = <<"emit", "workflowStateChanged", st.status>> /\ st # NoWorkflowState

\* C23: every step of the store that changes the state of a role or of the
\* workflow emits a notification that tells the new state.
C23_EveryChangeNotified ==
  [][/\ \A r \in Roles :
          (getAgentState(agentStates', r) # getAgentState(agentStates, r)) =>
            \E i \in 1..Len(fired') :
              TellsAgent(fired'[i], r, getAgentState(agentStates', r))
     /\ (workflowState' # workflowState) =>
          \E i \in 1..Len(fired') : TellsWorkflow(fired'[i], workflowState')]_vars

StoppedAllInProgress == cancelled # {}

\* C25 as stated: after stopAll during an execution the workflow state
\* stays running; the executor never moves it to completed or error.
C25_Abandoned == StoppedAllInProgress => workflowState.status = "running"

\* C25: stopAll during an execution leaves the workflow state, the executor
\* and the invocations in flight as they are, and the executor still moves
\* the workflow state to completed or error.
C25_NotAbandoned ==
  /\ [][StopWorkflowObserved =>
          UNCHANGED <<workflowState, pc, isRunning, microtask, calls>>]_vars
  /\ StoppedAllInProgress ~>
       (/\ pc \in {"returned", "threw"}
        /\ workflowState.status \in {"completed", "error"})

\* a two-step parallel execution whose two roles stopAll stopped in flight
\* has ended in completed
C25_Witness ==
  /\ workflow.pattern = "parallel"
  /\ Cardinality(cancelled) >= 2
  /\ pc = "returned"
  /\ workflowState.status = "completed"

\* C26: stop(role) changes the state and the handle of that role only: the
\* states of the other roles, the invocations in flight, the executor, the
\* workflow state and the accounting snapshot stay as they are; were a handle
\* registered for every role, only that role's would be aborted and removed.
C26_StopOnlyThatRole ==
  [][\A a \in Roles :
       StopAgentCmd(a) =>
         /\ \A r \in Roles \ {a} :
              getAgentState(agentStates', r) = getAgentState(agentStates, r)
         /\ UNCHANGED <<calls, microtask, pc, outputs, workflowState,
                        tokenStats, conversationHistories>>
         /\ LET T == stopAgent([as |-> agentStates, ctl |-> Roles, fd |-> <<>>], a)
            IN /\ T.ctl \ {a} = Roles \ {a}
               /\ \A i \in 1..Len(T.fd) :
                    T.fd[i][1] = "abort" => T.fd[i][2] = a]_vars

\* in a parallel execution one role has just been stopped while the
\* invocation of a sibling is in flight, the sibling still running
C26_Witness ==
  /\ workflow.pattern = "parallel"
  /\ \E s, t \in 1..NumSteps :
       /\ calls[s].phase = "inflight" /\ calls[t].phase = "inflight"
       /\ calls[s].agentId # calls[t].agentId
       /\ fired = << <<"emit", "agentStateChanged", calls[s].agentId, "stopped">> >>
       /\ getAgentState(agentStates, calls[s].agentId).status = "stopped"
       /\ getAgentState(agentStates, calls[t].agentId).status = "running"

C27_CountersRestored ==
  (globalState # Undefined) =>
    [loadTokenStats(globalState, clock) EXCEPT !.sessionStartTime = 0] =
      [globalState[1] EXCEPT !.sessionStartTime = 0]

\* another invocation of the role of slot s is in flight
SameRoleInFlight(s) ==
  \E t \in Slots \ {s} :
    calls[t].phase = "inflight" /\ calls[t].agentId = calls[s].agentId

\* C28: invocations of one role run side by side unguarded.  A Parallel
\* execution starts every step of a role with a profile, also steps of the
\* same role; a transition of one invocation leaves the others of the role
\* in flight and writes the role's state record; an invocation in flight is
\* never dropped.
C28_Unguarded ==
  [][/\ ExecuteParallel =>
          \A i \in 1..NumSteps :
            hasAgent(workflow.steps[i].agentId) => calls'[i].phase = "inflight"
     /\ \A s \in Slots :
          (calls[s].phase = "inflight" /\ SameRoleInFlight(s)) =>
            /\ calls'[s].phase \in {"inflight", "returned"}
            /\ (calls'[s] # calls[s]) =>
                 /\ \A t \in Slots \ {s} :
                      calls[t].agentId = calls[s].agentId => calls'[t] = calls[t]
                 /\ getAgentState(agentStates', calls[s].agentId) =
                      IF calls'[s].phase = "returned"
                      THEN FinalState(calls'[s].result, calls'[s].retryCount)
                      ELSE RunningState(calls'[s].retryCount)]_vars

\* two parallel steps of the planner have both delivered a result, one a
\* success and one a failure; the planner's record is that of the failure
C28_Witness ==
  /\ workflow.pattern = "parallel"
  /\ NumSteps >= 2
  /\ calls[1].agentId = "planner" /\ calls[2].agentId = "planner"
  /\ calls[1].phase = "returned" /\ calls[2].phase = "returned"
  /\ Len(calls[1].invoked) > 0 /\ Len(calls[2].invoked) > 0
  /\ calls[1].result.success /\ ~calls[2].result.success
  /\ getAgentState(agentStates, "planner") =
       FinalState(calls[2].result, calls[2].retryCount)
  /\ pc = "returned"

\* the session the store holds for role r, NoSession when it holds none
NoSession == [sessionId |-> "none", messages |-> <<>>]
Session(hs, r) == IF MapHas(hs, r) THEN MapGet(hs, r) ELSE NoSession

\* C29: a role has at most one session.  None exists until the first
\* addConversationMessage for the role; every later call appends a user
\* message and an assistant message to the same session and adopts the id it
\* is given; the session goes only with a clear of the role or of all
\* sessions, and no other operation changes it.
C29_OneSession ==
  [][\A r \in Roles :
       LET old == Session(conversationHistories, r)
           new == Session(conversationHistories', r)
       IN /\ Cardinality({i \in 1..Len(conversationHistories') :
                            conversationHistories'[i].k = r}) <= 1
          /\ \A sid \in SessionIds, u \in {Undefined} \cup {Some(x) : x \in Usages} :
               (new # old /\ new # NoSession /\ AddConversationMessage(r, sid, u)) =>
                 /\ new.sessionId = sid
                 /\ Len(new.messages) = Len(old.messages) + 2
                 /\ SubSeq(new.messages, 1, Len(old.messages)) = old.messages
                 /\ new.messages[Len(new.messages) - 1].role = "user"
                 /\ new.messages[Len(new.messages)].role = "assistant"
                 /\ old # NoSession => new.createdAt = old.createdAt
          /\ (new # old) =>
               \/ fired' = << <<"emit", "conversationUpdated", r, new>> >>
               \/ /\ new = NoSession
                  /\ fired' \in {<< <<"emit", "conversationCleared", r>> >>,
                                 << <<"emit", "allConversationsCleared">> >>}]_vars

\* the planner's session holds two exchanges, the second under another id,
\* and has just outlived a reset of all agent states
C29_Witness ==
  /\ MapHas(conversationHistories, "planner")
  /\ Len(MapGet(conversationHistories, "planner").messages) = 4
  /\ MapGet(conversationHistories, "planner").sessionId = "session-2"
  /\ MapGet(conversationHistories, "planner").totalTokens = 700
  /\ fired = << <<"emit", "allAgentStatesReset">> >>

\* C30: a role that has a state keeps one, unless clearAgentState for the
\* role or resetAllAgentStates has just run.
C30_RemovedOnlyByReset ==
  [][\A r \in Roles :
       (MapHas(agentStates, r) /\ ~MapHas(agentStates', r)) =>
         fired' \in {<< <<"emit", "agentStateCleared", r>> >>,
                     << <<"emit", "allAgentStatesReset">> >>}]_vars

\* position of event e in the events fd, 0 when it is not among them
EventAt(fd, e) ==
  IF \E i \in 1..Len(fd) : fd[i] = e
  THEN CHOOSE i \in 1..Len(fd) : fd[i] = e /\ \A j \in 1..(i - 1) : fd[j] # e
  ELSE 0

C32_StoredOutputIsChunks ==
  \A s \in Slots :
    (/\ calls[s].phase = "inflight"
     /\ \A t \in Slots \ {s} : calls[t].agentId # calls[s].agentId) =>
      getAgentState(agentStates, calls[s].agentId).output = calls[s].output

\* position of key k in the Map m
KeyIndex(m, k) == CHOOSE i \in 1..Len(m) : m[i].k = k

\* in a Parallel or Fan-out execution step t has completed with success while
\* the earlier step s is still in flight; the role of t is the role of no
\* step up to s
CompletedFirst(t, s) ==
  /\ workflow.pattern # "sequential"
  /\ s < t /\ t <= NumSteps
  /\ \A u \in 1..s : workflow.steps[u].agentId # workflow.steps[t].agentId
  /\ calls[t].phase = "returned" /\ calls[t].result.success
  /\ calls[s].phase = "inflight"

\* the execution has returned, both steps have succeeded
BothCollected(t, s) ==
  /\ pc = "returned"
  /\ s <= NumSteps /\ t <= NumSteps
  /\ calls[s].result.success /\ calls[t].result.success
  /\ MapHas(outputs, workflow.steps[s].agentId)
  /\ MapHas(outputs, workflow.steps[t].agentId)

C34_Added(usage, model) ==
  IF usage.cost # Undefined THEN usage.cost[1]
  ELSE calculateCost(IF model \in DOMAIN TOKEN_PRICING THEN model
                     ELSE "claude-sonnet-4-5-20250929",
                     usage.inputTokens, usage.outputTokens)

C34_CurrentRevision ==
  \A agentId \in StoreRoles, usage \in Usages :
    LET model == ModelOf(agentId)
        after == addTokenUsage(tokenStats, clock, agentId, usage, model).ts
        before == checkDailyReset(tokenStats, clock)
        entry == IF MapHas(before.byAgent, agentId)
                 THEN MapGet(before.byAgent, agentId).cost ELSE FZero
    IN /\ after.totalCost = FAdd(tokenStats.totalCost, C34_Added(usage, model))
       /\ MapGet(after.byAgent, agentId).cost = FAdd(entry, C34_Added(usage, model))

C34_CostAdded ==
  /\ C34_CurrentRevision
  /\ \A agentId \in StoreRoles, usage \in Usages :
       addTokenUsageCost(usage, ModelOf(agentId)) = C34_Added(usage, ModelOf(agentId))

\* C35: the accounting snapshot is saved by every mutating accounting
\* operation (addTokenUsage with its lazy daily reset, setBudget,
\* disableBudget, resetTokenStats): a step that changes the snapshot in memory,
\* other than the constructor's load, leaves the persisted snapshot equal to
\* it, and in every state a store constructed from the persisted snapshot
\* reports the totals, per-role totals, daily counter and budget in memory.
C35_Reloaded ==
  LET loaded == loadTokenStats(globalState, clock)
  IN /\ loaded.totalInputTokens = tokenStats.totalInputTokens
     /\ loaded.totalOutputTokens = tokenStats.totalOutputTokens
     /\ loaded.totalTokens = tokenStats.totalTokens
     /\ loaded.totalCost = tokenStats.totalCost
     /\ loaded.sessionCount = tokenStats.sessionCount
     /\ loaded.byAgent = tokenStats.byAgent
     /\ loaded.dailyTokens = tokenStats.dailyTokens
     /\ loaded.budget = tokenStats.budget

C35_SavedAfterWrite ==
  /\ []C35_Reloaded
  /\ [][(tokenStats' # tokenStats /\ tokenStats' # loadTokenStats(globalState, clock))
          => globalState' = Some(tokenStats')]_vars

\* a write after a day has passed restarted the daily counter, with a budget
\* set, and the snapshot was saved
C35_Witness ==
  /\ tokenStats.sessionCount >= 2
  /\ tokenStats.budget # Undefined
  /\ tokenStats.dailyTokens # Undefined
  /\ OrZero(tokenStats.dailyTokens) < tokenStats.totalTokens
  /\ globalState = Some(tokenStats)
  /\ Len(fired) >= 1 /\ fired[1] = EvTokenStats

\* the positions of event e in the events fd
Positions(fd, e) == {i \in 1..Len(fd) : fd[i] = e}

\* C36: lifecycle callbacks are ordered within an execution.  The worker is
\* invoked for a role right after onAgentStart and the running state of that
\* role; a step in which an attempt of a call ends fires onAgentComplete for
\* its role exactly once, right after the completed or error state of that
\* attempt, and onAgentComplete is fired by such steps only (so a call that
\* fails K+1 times has fired it K+1 times); onWorkflowComplete is fired
\* exactly by the step that records the workflow as completed, right after
\* that state, when no attempt is pending any more, and nothing ends and no
\* callback fires after the workflow has ended in completed or in error.
C36_CallbackOrder ==
  [][/\ \A a \in Roles : \A i \in Positions(fired', <<"run", a>>) :
          /\ i >= 3
          /\ fired'[i - 2] = <<"cb", "onAgentStart", a>>
          /\ fired'[i - 1] = <<"emit", "agentStateChanged", a, "running">>
     /\ \A s \in Slots :
          Len(calls'[s].outcomes) # Len(calls[s].outcomes) =>
            LET a == calls[s].agentId
                ok == calls'[s].outcomes[Len(calls'[s].outcomes)]
                done == Positions(fired', <<"cb", "onAgentComplete", a>>)
            IN /\ Len(calls'[s].outcomes) = Len(calls[s].outcomes) + 1
               /\ Len(calls'[s].outcomes) = calls[s].retryCount + 1
               /\ done = {2}
               /\ fired'[1] = <<"emit", "agentStateChanged", a,
                                IF ok THEN "completed" ELSE "error">>
     /\ (fired' # fired /\ \E a \in Roles :
                             Positions(fired', <<"cb", "onAgentComplete", a>>) # {}) =>
          \E s \in Slots : Len(calls'[s].outcomes) # Len(calls[s].outcomes)
     /\ workflowState'.status # workflowState.status =>
          (workflowState'.status = "completed" <=>
             Positions(fired', <<"cb", "onWorkflowComplete">>) # {})
     /\ (workflowState'.status # workflowState.status
         /\ workflowState'.status = "completed") =>
          /\ fired' = <<EvWorkflow("completed"), <<"cb", "onWorkflowComplete">> >>
          /\ \A s \in Slots : calls[s].phase # "inflight"
     /\ (fired' # fired /\ Positions(fired', <<"cb", "onWorkflowComplete">>) # {}) =>
          (workflowState.status = "running" /\ workflowState'.status = "completed")
     /\ workflowState.status \in {"completed", "error"} =>
          /\ workflowState' = workflowState
          /\ \A s \in Slots : calls'[s].outcomes = calls[s].outcomes
          /\ fired' # fired =>
               \A i \in 1..Len(fired') : fired'[i][1] # "cb"]_vars

\* the workflow has just completed after a call failed once and succeeded
\* on the retry: two onAgentComplete, then one onWorkflowComplete
C36_Witness ==
  /\ pc = "returned"
  /\ workflowState.status = "completed"
  /\ fired = <<EvWorkflow("completed"), <<"cb", "onWorkflowComplete">> >>
  /\ \E s \in Slots : calls[s].outcomes = <<FALSE, TRUE>>

\* a response envelope: a JSON object whose result is a string
IsEnvelope(value) ==
  /\ value.type = "object"
  /\ value.result # Undefined
  /\ value.result[1].type = "string"

\* C37: a malformed worker response never fails the invocation by itself.
\* A run that has ended has resolved; when the process closed and its output
\* is not a response envelope, the Result is the one of text parsing (the
\* output is the text written) and has success exactly when the exit code is
\* 0; after a spawn error, an error event or a non-zero exit the Result is a
\* failure.
C37_MalformedFallsBack ==
  /\ currentProcess.phase # "thrown"
  /\ currentProcess.phase = "resolved" =>
       LET result == currentProcess.result[1]
       IN /\ (currentProcess.ended = "close"
              /\ ~IsEnvelope(JSONparse(currentProcess.output))) =>
               /\ result.success = (currentProcess.code = "0")
               /\ result.output = currentProcess.output
          /\ (currentProcess.ended \in {"spawn", "error"}
              \/ currentProcess.code \in {"1", "null"}) => ~result.success

\* the previousOutputs map after the steps 1..k of a sequential workflow, the
\* steps without a profile left out
RECURSIVE C38_ChainUpTo(_)
C38_ChainUpTo(k) ==
  IF k = 0 THEN <<>>
  ELSE IF workflow.steps[k].agentId \notin AGENTS THEN C38_ChainUpTo(k - 1)
  ELSE MapSet(C38_ChainUpTo(k - 1), AgentName(workflow.steps[k].agentId),
              calls[k].result.output)

\* the currentPrompt after the steps 1..k, the steps without a profile left out
RECURSIVE C38_PromptAfter(_)
C38_PromptAfter(k) ==
  IF k = 0 THEN initialPrompt
  ELSE IF workflow.steps[k].agentId \notin AGENTS THEN C38_PromptAfter(k - 1)
  ELSE stepPrompt(workflow.steps[k])

\* C38: in the sequential pattern a step whose role has no profile is
\* skipped.  No call is made for it, the role has no state and no output, and
\* a later step starts with the prompt and the chain context it would have
\* without the skipped steps; when the workflow ends in completed the role is
\* not a key of the output map.
C38_SkippedStep ==
  /\ [](workflow.pattern = "sequential" =>
          \A i \in 1..NumSteps :
            workflow.steps[i].agentId \notin AGENTS =>
              /\ calls[i] = UnusedCall
              /\ ~MapHas(agentStates, workflow.steps[i].agentId)
              /\ ~MapHas(outputs, workflow.steps[i].agentId)
              /\ \A k \in 1..Len(fired) : EventRole(fired[k]) # workflow.steps[i].agentId)
  /\ [][workflow.pattern = "sequential" =>
          \A j \in 1..NumSteps :
            (calls[j].phase = "unused" /\ calls'[j].phase # "unused") =>
              /\ workflow.steps[j].agentId \in AGENTS
              /\ \A i \in 1..(j - 1) :
                   workflow.steps[i].agentId \in AGENTS => calls[i].result.success
              /\ calls'[j].prompt =
                   C38_PromptAfter(j - 1)
                   \o (IF C38_ChainUpTo(j - 1) = <<>> THEN <<>>
                       ELSE buildChainContext(C38_ChainUpTo(j - 1)))]_vars

\* a sequential workflow whose first step has no profile has completed: the
\* second step ran with the initial prompt and is the only key of the outputs
C38_Witness ==
  /\ workflow.pattern = "sequential" /\ NumSteps = 2
  /\ workflow.steps[1].agentId \notin AGENTS
  /\ workflow.steps[2].agentId \in AGENTS
  /\ pc = "returned" /\ workflowState.status = "completed"
  /\ calls[1] = UnusedCall
  /\ calls[2].invoked = <<0>> /\ calls[2].prompt = initialPrompt
  /\ MapKeys(outputs) = {workflow.steps[2].agentId}

\* C39: after WorkflowRunner.stop() was called during an execution (isRunning
\* is false while execute has not returned), the runner starts no worker
\* invocation any more: no later sequential step and no retry attempt.
C39_NoInvocationAfterStop ==
  [][(pc = "running" /\ ~isRunning) =>
       \A s \in Slots : calls'[s].invoked = calls[s].invoked]_vars

\* what holds of the sequential loop: once stopped, no call is made for a
\* step that had not started
C39_NoLaterStep ==
  [][(pc = "running" /\ ~isRunning /\ workflow.pattern = "sequential") =>
       \A s \in Slots : calls[s].phase = "unused" => calls'[s].phase = "unused"]_vars

\* the store holds handles for roles whose state is running only
C40_HeldWhileRunning ==
  \A r \in runnerAbortControllers :
    /\ MapHas(agentStates, r)
    /\ MapGet(agentStates, r).status = "running"

\* C40: a cancellation handle is held for a role only while the role's state
\* is running: the store holds no handle for a role whose state is absent,
\* idle, completed, error or stopped.  Stated of the operations that register
\* nothing (state updates, stop, clear, reset, deserialize): when handles are
\* held for running roles only before such a step, so they are after it.
C40_HandleOnlyWhileRunning ==
  [][(C40_HeldWhileRunning /\ runnerAbortControllers' \subseteq runnerAbortControllers)
       => C40_HeldWhileRunning']_vars

====
